---- MODULE Spec2Model ----
(***************************************************************************)
(* Model of the dialogue orchestration core of the tutoring backend:       *)
(*   - api/conversation_orchestrator.py  (learning orchestrator)           *)
(*   - api/simulator_orchestrator.py     (roleplay simulator)              *)
(*                                                                         *)
(* Representation choices.                                                 *)
(*  * Utterances and simulator responses are TLA+ strings; `p in t` is     *)
(*    Contains(t, p), computed by substring search as Python does.         *)
(*  * A learning-mode text (str with "\n" separators) is the non-empty     *)
(*    sequence of its lines, i.e. the value of text.split('\n'); the       *)
(*    Python value None is the empty sequence.                             *)
(*  * Characters of the source literals outside Latin-1 cannot be written *)
(*    in a TLA+ string: emoji are written :) (y) (v) (pray), the dashes    *)
(*    -- and -, the arrow ->.                                              *)
(*  * The session/simulator state objects are records with the fields of   *)
(*    the Python classes.                                                  *)
(*  * last_call / sim_call are history variables: they record which        *)
(*    functions of the source ran in the last turn.                        *)
(*  * A Python exception escaping a handler is the field `raised` of the   *)
(*    handler's result: None, or Some(<exception class name>).  The        *)
(*    session state at the raise is the state kept.  pick_variant reads    *)
(*    session_state.safety.<name> on a dict (line 284), so every call of   *)
(*    it raises AttributeError; count_variant is the rest of its body.     *)
(*  * Two defects stop conversation_orchestrator.py from loading at all:   *)
(*    the import of itself at lines 14-17 and the nested quotes of the     *)
(*    f-string at line 762.  The model is of the functions as written,     *)
(*    read past both.                                                      *)
(*  * Pure functions applied to the finite utterance sets (IntentOf,       *)
(*    SimIntentOf, SlotValueOf, SimNormalized, ValidatedOf) are tabulated  *)
(*    once from the operators that compute them.                           *)
(*  * Four specifications share the variables: SpecLearning (turns of      *)
(*    on_student_message), SpecSimulator (turns of on_simulator_message),  *)
(*    SpecFunctions (one direct call of detect_intent,                     *)
(*    choose_policy_action, finalize_turn, pick_variant,                   *)
(*    detect_simulator_intent or validate_simulator_response, recorded in  *)
(*    pure_call) and SpecConcurrent (two on_student_message calls on one   *)
(*    session, interleaved at the read and the writes of is_first_message  *)
(*    and phase).                                                          *)
(***************************************************************************)
EXTENDS Integers, Sequences, FiniteSets, TLC

VARIABLES
    session_state,   \* SessionState object of the learning orchestrator
    lesson_spec,     \* LessonSpec handed to on_student_message (immutable)
    student_text,    \* argument of the last on_student_message call
    response,        \* value returned by the last on_student_message call
    last_call,       \* history: which handler produced `response`, and how
    sim_state,       \* SimulatorState object
    sim_text,        \* argument of the last on_simulator_message call
    sim_response,    \* value returned by the last on_simulator_message call
    sim_call,        \* history: functions run by the last simulator turn
    pure_call,       \* the direct call of a pure function: name, arguments, result
    requests         \* the two concurrent on_student_message calls: position and result

learning_vars == <<session_state, lesson_spec, student_text, response, last_call>>

simulator_vars == <<sim_state, sim_text, sim_response, sim_call>>

vars == <<session_state, lesson_spec, student_text, response, last_call,
          sim_state, sim_text, sim_response, sim_call, pure_call, requests>>

----------------------------------------------------------------------------
(* Bounds of the model                                                     *)

\* largest safety.loop_counter a caller-supplied SessionState starts with
MaxLoopCounter == 2

\* largest step_index a caller-supplied SessionState starts with
MaxStepIndex == 1

\* largest number of fragments an input of validate_simulator_response is made of
MaxFragments == 2

\* largest max_lines_before_question of a lesson handed to finalize_turn; the
\* texts handed to it have up to one line more
MaxLines == 5

\* the most uses of one variant recorded in the session states handed to pick_variant
MaxUses == 2

----------------------------------------------------------------------------
(* Python str primitives                                                   *)

\* Python None; an optional value v is None or Some(v)
None == <<>>

Some(v) == <<v>>

\* the value of an optional that is not None
Val(o) == o[1]

Chr(s, i) == SubSeq(s, i, i)

\* Python: p in t
Contains(t, p) ==
    \E i \in 1..(Len(t) - Len(p) + 1) : SubSeq(t, i, i + Len(p) - 1) = p

\* Python: any(p in t for p in phrases)
ContainsAny(t, phrases) == \E p \in phrases : Contains(t, p)

StartsAt(t, i, p) == i >= 1 /\ i + Len(p) - 1 <= Len(t) /\ SubSeq(t, i, i + Len(p) - 1) = p

EndsWith(t, p) == Len(p) <= Len(t) /\ SubSeq(t, Len(t) - Len(p) + 1, Len(t)) = p

UpperChars == "ABCDEFGHIJKLMNOPQRSTUVWXYZÁÉÍÓÚÂÊÔÃÕÇ"

LowerChars == "abcdefghijklmnopqrstuvwxyzáéíóúâêôãõç"

DigitChars == "0123456789_"

CharsOf(s) == {Chr(s, i) : i \in 1..Len(s)}

UpperSet == CharsOf(UpperChars)

LowerSet == CharsOf(LowerChars)

\* characters matched by \w
WordSet == UpperSet \cup LowerSet \cup CharsOf(DigitChars)

\* characters matched by \s
SpaceSet == {" ", "\n", "\t", "\r"}

ToLowerMap == [c \in UpperSet |-> Chr(LowerChars, CHOOSE i \in 1..Len(UpperChars) : Chr(UpperChars, i) = c)]

ToUpperMap == [c \in LowerSet |-> Chr(UpperChars, CHOOSE i \in 1..Len(LowerChars) : Chr(LowerChars, i) = c)]

lower_char(c) == IF c \in UpperSet THEN ToLowerMap[c] ELSE c

upper_char(c) == IF c \in LowerSet THEN ToUpperMap[c] ELSE c

IsWord(c) == c \in WordSet

IsSpace(c) == c \in SpaceSet

IsLetter(c) == c \in UpperSet \cup LowerSet

RECURSIVE ConcatRange(_, _, _)
\* ''.join(parts[lo..hi])
ConcatRange(parts, lo, hi) ==
    IF lo > hi THEN ""
    ELSE IF lo = hi THEN parts[lo]
    ELSE ConcatRange(parts, lo, (lo + hi) \div 2) \o ConcatRange(parts, ((lo + hi) \div 2) + 1, hi)

\* ''.join(parts) for a sequence of strings
Concat(parts) == ConcatRange(parts, 1, Len(parts))

\* Python: s.lower()
lower(s) == Concat([i \in 1..Len(s) |-> lower_char(Chr(s, i))])

\* index of the first / last character of s that is not whitespace (Len(s)+1 / 0 if none)
FirstNonSpace(s) ==
    IF \A i \in 1..Len(s) : IsSpace(Chr(s, i)) THEN Len(s) + 1
    ELSE CHOOSE i \in 1..Len(s) : ~IsSpace(Chr(s, i)) /\ \A j \in 1..(i - 1) : IsSpace(Chr(s, j))

LastNonSpace(s) ==
    IF \A i \in 1..Len(s) : IsSpace(Chr(s, i)) THEN 0
    ELSE CHOOSE i \in 1..Len(s) : ~IsSpace(Chr(s, i)) /\ \A j \in (i + 1)..Len(s) : IsSpace(Chr(s, j))

lstrip(s) == SubSeq(s, FirstNonSpace(s), Len(s))

rstrip(s) == SubSeq(s, 1, LastNonSpace(s))

\* Python: s.strip()
strip(s) == rstrip(lstrip(s))

punct_to_space(c) == IF IsWord(c) \/ IsSpace(c) THEN c ELSE " "

\* re.sub(r'[^\w\s]', ' ', s)
sub_punct(s) == Concat([i \in 1..Len(s) |-> punct_to_space(Chr(s, i))])

\* re.sub(r'\s+', ' ', s): a run of whitespace leaves one space, at its first character
collapse_spaces(s) ==
    Concat([i \in 1..Len(s) |->
              IF IsSpace(Chr(s, i))
                 THEN (IF i > 1 /\ IsSpace(Chr(s, i - 1)) THEN "" ELSE " ")
                 ELSE Chr(s, i)])

\* the maximal run of \w characters of s starting at position i: group (\w+)
WordRun(s, i) ==
    IF i > Len(s) \/ ~IsWord(Chr(s, i)) THEN ""
    ELSE SubSeq(s, i, CHOOSE e \in i..Len(s) :
                        /\ \A j \in i..e : IsWord(Chr(s, j))
                        /\ (e = Len(s) \/ ~IsWord(Chr(s, e + 1))))

\* re.search(prefix + r'(\w+)', s): positions where the pattern matches
MatchPositions(s, prefix) ==
    {i \in 1..Len(s) : StartsAt(s, i, prefix) /\ i + Len(prefix) <= Len(s)
                        /\ IsWord(Chr(s, i + Len(prefix)))}

\* Some(group(1)) of the leftmost match of prefix(\w+), None when there is no match
SearchWordAfter(s, prefix) ==
    LET ps == MatchPositions(s, prefix) IN
    IF ps = {} THEN None
    ELSE LET i == CHOOSE p \in ps : \A q \in ps : p <= q IN Some(WordRun(s, i + Len(prefix)))

RECURSIVE FirstMatch(_, _)
\* the first pattern of the list `prefixes` that matches decides (for pattern in patterns)
FirstMatch(s, prefixes) ==
    IF prefixes = <<>> THEN None
    ELSE LET m == SearchWordAfter(s, Head(prefixes)) IN
         IF m # None THEN m ELSE FirstMatch(s, Tail(prefixes))

\* index of the leftmost occurrence of old in s, 0 if there is none
find(s, old) ==
    IF ~Contains(s, old) THEN 0
    ELSE CHOOSE i \in 1..Len(s) : StartsAt(s, i, old) /\ \A j \in 1..(i - 1) : ~StartsAt(s, j, old)

RECURSIVE replace_from(_, _, _, _)
replace_from(s, old, new, i) ==
    IF i = 0 THEN s
    ELSE SubSeq(s, 1, i - 1) \o new
            \o replace_from(SubSeq(s, i + Len(old), Len(s)), old, new,
                            find(SubSeq(s, i + Len(old), Len(s)), old))

\* Python: s.replace(old, new) for non-empty old (leftmost, non-overlapping occurrences)
replace(s, old, new) == replace_from(s, old, new, find(s, old))

RECURSIVE split_ws(_)
\* Python: s.split() - the whitespace separated tokens
split_ws(s) ==
    LET t == lstrip(s) IN
    IF Len(t) = 0 THEN <<>>
    ELSE LET n == CHOOSE k \in 1..Len(t) :
                     /\ \A j \in 1..k : ~IsSpace(Chr(t, j))
                     /\ (k = Len(t) \/ IsSpace(Chr(t, k + 1)))
         IN <<SubSeq(t, 1, n)>> \o split_ws(SubSeq(t, n + 1, Len(t)))

\* Python: s.title(): a letter is upper case iff the character before it is not a letter
title(s) ==
    Concat([i \in 1..Len(s) |->
              IF IsLetter(Chr(s, i))
                 THEN (IF i > 1 /\ IsLetter(Chr(s, i - 1)) THEN lower_char(Chr(s, i))
                                                           ELSE upper_char(Chr(s, i)))
                 ELSE Chr(s, i)])

\* normalize_text of both orchestrators
normalize_text(text) ==
    IF text = "" THEN ""
    ELSE collapse_spaces(sub_punct(strip(lower(text))))

----------------------------------------------------------------------------
(* Learning orchestrator: enums and data model                             *)

\* the values of the members of an Enum class
Members(enum) == {enum[k] : k \in DOMAIN enum}

\* an Enum class is the record of its members' values: Intent.OFF_TOPIC
Intent ==
    [GREETING_OR_THANKS |-> "greeting_or_thanks",
     META_UNDERSTANDING |-> "meta_understanding",
     ASK_BOT_OPINION |-> "ask_bot_opinion",
     ASK_GRAMMAR_HELP |-> "ask_grammar_help",
     STUDENT_ANSWER |-> "student_answer",
     CONFUSION_OR_FRUSTRATION |-> "confusion_or_frustration",
     OFF_TOPIC |-> "off_topic",
     REQUEST_LANGUAGE_MODE |-> "request_language_mode",
     REQUEST_STOP_OR_CHANGE |-> "request_stop_or_change"]

Phase ==
    [INTRO |-> "INTRO", TEACH |-> "TEACH", PRACTICE |-> "PRACTICE",
     FEEDBACK |-> "FEEDBACK", REVIEW |-> "REVIEW"]

LanguageMode == [PT |-> "pt", EN |-> "en", BILINGUAL |-> "bilingual"]

\* dict.get(key, default)
Get(d, key, default) == IF key \in DOMAIN d THEN d[key] ELSE default

\* the default of LessonSpec.constraints
DefaultConstraints ==
    [max_lines_before_question |-> 4, allow_portuguese_correction |-> FALSE,
     correction_style |-> "minimal", end_turn_must_ask_question |-> TRUE]

\* MicroGoal objects as build_lesson_spec_from_topic creates them for verb_to_be
Goal_to_be_i_am ==
    [id |-> "to_be_i_am",
     explanation_pt |-> "Use 'I am' para falar de como VOCÊ está.",
     rule_pt |-> "I am + adjective.",
     examples |-> << [en |-> "I am happy.", pt |-> "Eu estou feliz."],
                     [en |-> "I am tired.", pt |-> "Eu estou cansado(a)."] >>,
     practice_prompts |-> << [pt |-> "Como você está hoje?", target_en_hint |-> "I am ___."],
                             [pt |-> "Diga: 'Estou cansado(a)'.", target_en |-> "I am tired."] >>]

Goal_to_be_you_are ==
    [id |-> "to_be_you_are",
     explanation_pt |-> "Use 'You are' para falar de como OUTRA PESSOA está.",
     rule_pt |-> "You are + adjective.",
     examples |-> << [en |-> "You are happy.", pt |-> "Você está feliz."],
                     [en |-> "You are tired.", pt |-> "Você está cansado(a)."] >>,
     practice_prompts |-> << [pt |-> "Como está seu amigo hoje?", target_en_hint |-> "You are ___."] >>]

\* the generic micro goal of every other topic (no examples)
Goal_generic ==
    [id |-> "present_simple_basic",
     explanation_pt |-> "Vamos praticar Present Simple.",
     rule_pt |-> "",
     examples |-> << >>,
     practice_prompts |-> << [pt |-> "Vamos praticar Present Simple.",
                              target_en_hint |-> "Try using it in a sentence."] >>]

\* the LessonSpec objects handed to the orchestrator
Lesson_verb_to_be ==
    [topic_id |-> "verb_to_be", title_pt |-> "Verb To Be", level |-> "beginner",
     language_mode |-> LanguageMode.BILINGUAL,
     micro_goals |-> <<Goal_to_be_i_am, Goal_to_be_you_are>>,
     constraints |-> DefaultConstraints]

Lesson_generic ==
    [topic_id |-> "present_simple", title_pt |-> "Present Simple", level |-> "beginner",
     language_mode |-> LanguageMode.BILINGUAL,
     micro_goals |-> <<Goal_generic>>,
     constraints |-> DefaultConstraints]

\* LessonSpec({'title_pt': ...}): micro_goals defaults to the empty list
Lesson_empty ==
    [topic_id |-> "", title_pt |-> "Simple Past", level |-> "beginner",
     language_mode |-> LanguageMode.BILINGUAL,
     micro_goals |-> << >>,
     constraints |-> DefaultConstraints]

\* a lesson whose constraints switch the closing question off
Lesson_no_question ==
    [topic_id |-> "verb_to_be", title_pt |-> "Verb To Be", level |-> "beginner",
     language_mode |-> LanguageMode.BILINGUAL,
     micro_goals |-> <<Goal_to_be_i_am>>,
     constraints |-> [DefaultConstraints EXCEPT !.end_turn_must_ask_question = FALSE,
                                                !.max_lines_before_question = 2]]

LessonSpecs == {Lesson_verb_to_be, Lesson_generic, Lesson_empty, Lesson_no_question}

\* the empty dict {}
EmptyDict == [k \in {} |-> 0]

\* SessionState.__init__
FreshSessionState ==
    [step_index |-> 0,
     phase |-> Phase.INTRO,
     last_bot_question |-> "",
     last_target |-> "",
     last_student_intent |-> "",
     is_learning_mode |-> TRUE,
     is_first_message |-> TRUE,
     topic_name |-> "",
     student_pref |-> [language_mode |-> LanguageMode.BILINGUAL, wants_corrections |-> TRUE,
                       wants_portuguese_help |-> TRUE],
     error_log |-> << >>,
     safety |-> [loop_counter |-> 0,
                 repeated_bot_phrase_counter |-> EmptyDict,
                 last_3_bot_intents |-> << >>]]

----------------------------------------------------------------------------
(* Learning orchestrator: intent router                                    *)

is_short_thanks_or_greeting(text) ==
    IF Len(text) > 20 THEN FALSE
    ELSE ContainsAny(normalize_text(text),
            {"oi", "olá", "hello", "hi", "hey",
             "obrigado", "obrigada", "thanks", "thank you", "valeu",
             "de nada", "you're welcome", "no problem",
             "tchau", "bye", "see you"})

looks_like_answer_attempt(text) ==
    LET normalized == normalize_text(text) IN
    \/ ContainsAny(normalized, {"i", "am", "is", "are", "i'm", "you", "he", "she", "it", "we", "they"})
    \/ ContainsAny(normalized, {"eu estou", "me sinto", "estou feliz", "estou cansado", "estou triste"})
    \/ ContainsAny(normalized, {"happy", "tired", "sad", "excited", "good", "bad", "feliz", "cansado", "triste"})

\* seeded fault: the greeting rule is tried first
detect_intent_greeting_first(text) ==
    IF text = "" THEN Intent.OFF_TOPIC
    ELSE IF is_short_thanks_or_greeting(text) THEN Intent.GREETING_OR_THANKS
    ELSE LET t == normalize_text(text) IN
    IF ContainsAny(t, {"português", "portugues", "só inglês", "so ingles", "bilingue", "bilíngue", "bilingual"})
        THEN Intent.REQUEST_LANGUAGE_MODE
    ELSE IF ContainsAny(t, {"você entendeu", "vc entendeu", "entendeu o que eu disse", "did you understand", "understand what i said"})
        THEN Intent.META_UNDERSTANDING
    ELSE IF ContainsAny(t, {"e você", "and you", "what about you", "how about you", "or you", "your opinion", "qual sua opinião", "what do you think"})
        THEN Intent.ASK_BOT_OPINION
    ELSE IF ContainsAny(t, {"não respondeu", "você não respondeu", "desastre", "errado", "não é isso", "confuso", "didn't answer", "wrong", "confused"})
        THEN Intent.CONFUSION_OR_FRUSTRATION
    ELSE IF ContainsAny(t, {"como fala", "como digo", "qual regra", "por que", "when do i use", "grammar", "como usar", "how do i say"})
        THEN Intent.ASK_GRAMMAR_HELP
    ELSE IF ContainsAny(t, {"trocar", "próxima", "mudar tema", "stop", "change topic", "next", "próximo"})
        THEN Intent.REQUEST_STOP_OR_CHANGE
    ELSE IF looks_like_answer_attempt(text)
        THEN Intent.STUDENT_ANSWER
    ELSE Intent.OFF_TOPIC

detect_intent(text) ==
    IF text = "" THEN Intent.OFF_TOPIC
    ELSE LET t == normalize_text(text) IN
    IF ContainsAny(t, {"português", "portugues", "só inglês", "so ingles", "bilingue", "bilíngue", "bilingual"})
        THEN Intent.REQUEST_LANGUAGE_MODE
    ELSE IF ContainsAny(t, {"você entendeu", "vc entendeu", "entendeu o que eu disse", "did you understand", "understand what i said"})
        THEN Intent.META_UNDERSTANDING
    ELSE IF ContainsAny(t, {"e você", "and you", "what about you", "how about you", "or you", "your opinion", "qual sua opinião", "what do you think"})
        THEN Intent.ASK_BOT_OPINION
    ELSE IF ContainsAny(t, {"não respondeu", "você não respondeu", "desastre", "errado", "não é isso", "confuso", "didn't answer", "wrong", "confused"})
        THEN Intent.CONFUSION_OR_FRUSTRATION
    ELSE IF is_short_thanks_or_greeting(text)
        THEN Intent.GREETING_OR_THANKS
    ELSE IF ContainsAny(t, {"como fala", "como digo", "qual regra", "por que", "when do i use", "grammar", "como usar", "how do i say"})
        THEN Intent.ASK_GRAMMAR_HELP
    ELSE IF ContainsAny(t, {"trocar", "próxima", "mudar tema", "stop", "change topic", "next", "próximo"})
        THEN Intent.REQUEST_STOP_OR_CHANGE
    ELSE IF looks_like_answer_attempt(text)
        THEN Intent.STUDENT_ANSWER
    ELSE Intent.OFF_TOPIC

----------------------------------------------------------------------------
(* Learning orchestrator: policy engine                                    *)

\* seeded fault: under loop risk the policy falls back to the redirect
policy_yields_to_loop_counter(intent, st) ==
    IF st.safety.loop_counter >= 2 THEN "GENTLE_REDIRECT"
    ELSE IF intent \in {Intent.ASK_BOT_OPINION, Intent.META_UNDERSTANDING, Intent.ASK_GRAMMAR_HELP}
        THEN "ANSWER_STUDENT_QUESTION_THEN_RETURN_TO_LESSON"
    ELSE IF intent = Intent.CONFUSION_OR_FRUSTRATION THEN "DEESCALATE_CLARIFY_AND_REPAIR"
    ELSE IF intent = Intent.REQUEST_LANGUAGE_MODE THEN "SET_LANGUAGE_MODE"
    ELSE IF intent = Intent.GREETING_OR_THANKS THEN "ACK_AND_REDIRECT_TO_PRACTICE"
    ELSE IF intent = Intent.STUDENT_ANSWER THEN "EVALUATE_AND_FEEDBACK"
    ELSE IF intent = Intent.REQUEST_STOP_OR_CHANGE THEN "OFFER_OPTIONS"
    ELSE "GENTLE_REDIRECT"

choose_policy_action(intent, st) ==
    IF intent \in {Intent.ASK_BOT_OPINION, Intent.META_UNDERSTANDING, Intent.ASK_GRAMMAR_HELP}
        THEN "ANSWER_STUDENT_QUESTION_THEN_RETURN_TO_LESSON"
    ELSE IF intent = Intent.CONFUSION_OR_FRUSTRATION THEN "DEESCALATE_CLARIFY_AND_REPAIR"
    ELSE IF intent = Intent.REQUEST_LANGUAGE_MODE THEN "SET_LANGUAGE_MODE"
    ELSE IF intent = Intent.GREETING_OR_THANKS THEN "ACK_AND_REDIRECT_TO_PRACTICE"
    ELSE IF intent = Intent.STUDENT_ANSWER THEN "EVALUATE_AND_FEEDBACK"
    ELSE IF intent = Intent.OFF_TOPIC THEN "GENTLE_REDIRECT"
    ELSE IF intent = Intent.REQUEST_STOP_OR_CHANGE THEN "OFFER_OPTIONS"
    ELSE "GENTLE_REDIRECT"

----------------------------------------------------------------------------
(* Learning orchestrator: output formatting.  A text is the sequence of    *)
(* its lines.                                                              *)

\* a str without line break
T(s) == <<s>>

\* a + b on texts: the last line of a continues with the first line of b
Cat(a, b) == SubSeq(a, 1, Len(a) - 1) \o <<a[Len(a)] \o b[1]>> \o SubSeq(b, 2, Len(b))

\* a + "\n" + b
NL(a, b) == a \o b

\* Python truthiness of an Optional[str]
Truthy(t) == t # None /\ t # <<"">>

out_pt(t) == t

out_en(t) == Cat(Cat(T("[EN]"), t), T("[/EN]"))

format_bilingual(pt, en, pt2, mode) ==
    IF mode = LanguageMode.PT
        THEN (IF Truthy(pt2) THEN Cat(Cat(pt, T(" ")), pt2) ELSE pt)
    ELSE IF mode = LanguageMode.EN
        THEN (IF Truthy(en) THEN en ELSE out_en(pt))
    ELSE LET msg1 == IF Truthy(en) THEN NL(pt, out_en(en)) ELSE pt IN
         IF Truthy(pt2) THEN NL(msg1, pt2) ELSE msg1

\* seeded fault: the text is never cut to max_lines_before_question lines
finalize_without_truncation(text, question, lesson) ==
    IF lesson.constraints.end_turn_must_ask_question
       THEN NL(text, question)
       ELSE text

finalize_turn(text, question, lesson) ==
    LET lines == text
        max_lines == lesson.constraints.max_lines_before_question
        text1 == IF Len(lines) > max_lines
                    THEN (IF max_lines = 0 THEN <<"">> ELSE SubSeq(lines, 1, max_lines))
                    ELSE text
    IN IF lesson.constraints.end_turn_must_ask_question
          THEN NL(text1, question)
          ELSE text1

\* variant_counts.get(v, 0)
CountOf(variant_counts, v) == IF v \in DOMAIN variant_counts THEN variant_counts[v] ELSE 0

\* lines 285-299 of pick_variant: the least used variant under `key`, counted
count_variant(key, variants, st) ==
    LET counter == st.safety.repeated_bot_phrase_counter
        variant_counts == IF key \in DOMAIN counter THEN counter[key] ELSE EmptyDict
        \* min(variants, key=...) is the first variant of the list with the least count
        first_min == CHOOSE i \in 1..Len(variants) :
                        /\ \A j \in 1..Len(variants) :
                              CountOf(variant_counts, variants[i]) <= CountOf(variant_counts, variants[j])
                        /\ \A j \in 1..(i - 1) :
                              CountOf(variant_counts, variants[j]) > CountOf(variant_counts, variants[i])
        chosen == IF DOMAIN variant_counts = {} THEN variants[1] ELSE variants[first_min]
        new_counts == [v \in DOMAIN variant_counts \cup {chosen} |->
                          IF v = chosen THEN CountOf(variant_counts, v) + 1 ELSE variant_counts[v]]
        new_counter == [k \in DOMAIN counter \cup {key} |-> IF k = key THEN new_counts ELSE counter[k]]
    IN [chosen |-> chosen,
        state |-> [st EXCEPT !.safety.repeated_bot_phrase_counter = new_counter],
        raised |-> None]

\* the attributes of a dict object are the methods of dict, never its keys
dict_attributes ==
    {"clear", "copy", "fromkeys", "get", "items", "keys", "pop", "popitem",
     "setdefault", "update", "values"}

\* pick_variant opens with session_state.safety.repeated_bot_phrase_counter, an
\* attribute lookup on the dict SessionState.safety: the lookup raises
\* AttributeError before any variant is chosen or counted
pick_variant(key, variants, st) ==
    IF "repeated_bot_phrase_counter" \in dict_attributes
       THEN count_variant(key, variants, st)
       ELSE [chosen |-> "", state |-> st, raised |-> Some("AttributeError")]

----------------------------------------------------------------------------
(* Learning orchestrator: evaluation of the student's answer               *)

\* emotion_map in insertion order
emotion_map ==
    << <<"happy", "feliz">>, <<"tired", "cansado">>, <<"sad", "triste">>,
       <<"excited", "animado">>, <<"good", "bem">>, <<"bad", "mal">>,
       <<"feliz", "feliz">>, <<"cansado", "cansado">>, <<"triste", "triste">>,
       <<"animado", "animado">> >>

infer_meaning(text) ==
    LET normalized == normalize_text(text)
        hits == {i \in 1..Len(emotion_map) : Contains(normalized, emotion_map[i][1])}
    IN IF hits = {} THEN "algo positivo"
       ELSE emotion_map[CHOOSE i \in hits : \A j \in hits : i <= j][2]

\* patterns i\s+am\s+(\w+), i'm\s+(\w+), i\s+(\w+); the normalized text has single spaces only
extract_or_infer_english_attempt(text) ==
    LET adj == FirstMatch(normalize_text(text), <<"i am ", "i'm ", "i ">>) IN
    IF adj = None THEN None ELSE Some("I am " \o Val(adj))

meaning_to_pt(meaning) == meaning

\* re.search(r'\bi\s+(happy|tired|sad|good|bad|excited)\b', normalized)
missing_be_pattern(normalized) ==
    \E i \in 1..Len(normalized) : \E w \in {"happy", "tired", "sad", "good", "bad", "excited"} :
        /\ (i = 1 \/ ~IsWord(Chr(normalized, i - 1)))
        /\ StartsAt(normalized, i, "i " \o w)
        /\ (i + Len(w) + 2 > Len(normalized) \/ ~IsWord(Chr(normalized, i + Len(w) + 2)))

evaluate_answer(student_text_, micro_goal) ==
    LET meaning == infer_meaning(student_text_)
        produced_en == extract_or_infer_english_attempt(student_text_)
        errors == IF micro_goal.id = "to_be_i_am" /\ missing_be_pattern(normalize_text(student_text_))
                     THEN << [type |-> "missing_be", fix |-> "I am " \o meaning,
                              tip_pt |-> "Faltou o 'am' depois de 'I'."] >>
                     ELSE << >>
    IN [meaning |-> meaning, produced_en |-> produced_en, errors |-> errors]

----------------------------------------------------------------------------
(* Learning orchestrator: handlers.  A handler yields the returned text,   *)
(* the session state it leaves, and the record of how the text was made;   *)
(* a handler that ends in an exception yields no text and names the        *)
(* exception in `raised`.                                                  *)

\* return finalize_turn(base, q, lesson_spec)
Fin(name, st, base, q, lesson) ==
    [text |-> finalize_turn(base, q, lesson), state |-> st, handler |-> name,
     via_finalize |-> TRUE, question |-> q, raised |-> None]

\* return <text> without finalize_turn
Raw(name, st, text) ==
    [text |-> text, state |-> st, handler |-> name, via_finalize |-> FALSE, question |-> None,
     raised |-> None]

\* the exception `exc` leaves the handler: nothing is returned
Raised(name, st, exc) ==
    [text |-> None, state |-> st, handler |-> name, via_finalize |-> FALSE, question |-> None,
     raised |-> exc]

\* micro_goals[step_index] if in bounds, else micro_goals[0], else None
current_or_first_goal(lesson, st) ==
    IF st.step_index < Len(lesson.micro_goals) THEN Some(lesson.micro_goals[st.step_index + 1])
    ELSE IF lesson.micro_goals # << >> THEN Some(lesson.micro_goals[1]) ELSE None

\* micro_goals[step_index] if in bounds, else micro_goals[-1], else None
current_or_last_goal(lesson, st) ==
    IF st.step_index < Len(lesson.micro_goals) THEN Some(lesson.micro_goals[st.step_index + 1])
    ELSE IF lesson.micro_goals # << >> THEN Some(lesson.micro_goals[Len(lesson.micro_goals)]) ELSE None

\* micro_goals[0] if lesson_spec.micro_goals else None
first_goal(lesson) ==
    IF lesson.micro_goals # << >> THEN Some(lesson.micro_goals[1]) ELSE None

HasExamples(goal) == goal # None /\ Val(goal).examples # << >>

HasPrompts(goal) == goal # None /\ Val(goal).practice_prompts # << >>

\* format_bilingual(prompt.get('pt', d_pt), prompt.get('target_en_hint', 'I am ___.'), mode=mode)
prompt_question(goal, d_pt, mode) ==
    LET prompt == Val(goal).practice_prompts[1] IN
    format_bilingual(T(Get(prompt, "pt", d_pt)), T(Get(prompt, "target_en_hint", "I am ___.")), None, mode)

\* base += "\n" + format_bilingual(label, example.get('en', ''), mode=mode)
with_example(base, goal, label, mode) ==
    IF HasExamples(goal)
       THEN NL(base, format_bilingual(T(label), T(Get(Val(goal).examples[1], "en", "")), None, mode))
       ELSE base

handle_question(intent, student_text_, lesson, st) ==
    LET mode == st.student_pref.language_mode
        current_micro_goal == current_or_first_goal(lesson, st)
        resume_pt2 == T("E já estamos praticando exatamente isso no tema " \o lesson.title_pt \o ".")
    IN
    IF intent = Intent.META_UNDERSTANDING THEN
        LET guess == "Você respondeu de forma educada e eu gostei disso."
            base0 == format_bilingual(T("Entendi sim (y) " \o guess), None, resume_pt2, mode)
            base == with_example(base0, current_micro_goal, "Quando você diz como está, em inglês fica:", mode)
            q == IF HasPrompts(current_micro_goal)
                    THEN prompt_question(current_micro_goal, "Agora tente você: como está hoje?", mode)
                    ELSE format_bilingual(T("Agora tente: como você está hoje?"),
                                          T("Now try: How are you today? Say: I am ___."), None, mode)
        IN Fin("handle_question", st, base, q, lesson)
    ELSE IF intent = Intent.ASK_BOT_OPINION THEN
        LET bot_answer_en == "I am good today. I am a bit tired."
            base0 == format_bilingual(T("Boa! Eu também respondo :)"), T(bot_answer_en), resume_pt2, mode)
            base == with_example(base0, current_micro_goal, "Quando você diz como está, em inglês fica:", mode)
            q == IF HasPrompts(current_micro_goal)
                    THEN prompt_question(current_micro_goal, "Agora é sua vez: como está hoje?", mode)
                    ELSE format_bilingual(T("Agora é sua vez: como está hoje?"),
                                          T("Now your turn: How are you today? Say: I am ___."), None, mode)
        IN Fin("handle_question", st, base, q, lesson)
    ELSE IF intent = Intent.ASK_GRAMMAR_HELP THEN
        LET base ==
                IF current_micro_goal # None THEN
                    LET g == Val(current_micro_goal)
                        rule == IF g.rule_pt # "" THEN g.rule_pt ELSE "usamos o verbo 'to be' antes do adjetivo"
                        base0 == format_bilingual(T("Claro! A regra aqui é simples: " \o rule \o "."),
                                                  T(IF g.rule_pt # "" THEN g.rule_pt ELSE "I am + adjective."),
                                                  None, mode)
                        ex(i) == format_bilingual(T("Ex.:"), T(Get(g.examples[i], "en", "")), None, mode)
                    IN IF Len(g.examples) = 0 THEN base0
                       ELSE IF Len(g.examples) = 1 THEN NL(base0, ex(1))
                       ELSE NL(NL(base0, ex(1)), ex(2))
                ELSE format_bilingual(T("Claro! A regra aqui é simples: usamos o verbo 'to be' antes do adjetivo."),
                                      T("I am + adjective. / You are + adjective."),
                                      T("Ex.: I am happy. / You are tired."), mode)
            q == IF HasPrompts(current_micro_goal)
                    THEN prompt_question(current_micro_goal, "Agora tente: como está hoje?", mode)
                    ELSE format_bilingual(T("Agora tente uma: 'Eu estou feliz' em inglês :)"),
                                          T("Now try: 'I am happy.'"), None, mode)
        IN Fin("handle_question", st, base, q, lesson)
    ELSE Raw("handle_question", st,
             format_bilingual(T("Entendi sua pergunta! Vamos continuar praticando " \o lesson.title_pt \o "."),
                              T("I understand! Let's continue practicing."), None, mode))

handle_frustration(student_text_, lesson, st) ==
    LET mode == st.student_pref.language_mode
        normalized == normalize_text(student_text_)
        current_micro_goal == first_goal(lesson)
        continue_pt2 == T("Vamos continuar praticando " \o lesson.title_pt \o ".")
        q == IF HasPrompts(current_micro_goal)
                THEN prompt_question(current_micro_goal, "Vamos continuar. Como está hoje?", mode)
                ELSE format_bilingual(T("Vamos continuar (v)"), T("Let's continue:"), None, mode)
    IN
    IF ContainsAny(normalized, {"já sabe", "já tá", "já estamos", "dentro de um tema", "tema"}) THEN
        LET base0 == format_bilingual(
                        T("Isso mesmo :) Estamos no tema " \o lesson.title_pt \o ", e eu vou te guiar passo a passo."),
                        None, continue_pt2, mode)
            base == with_example(base0, current_micro_goal, "Lembra:", mode)
        IN Fin("handle_frustration", st, base, q, lesson)
    ELSE
        LET base == format_bilingual(
                        T("Entendi (pray) Vamos ajustar isso rapidinho. Estamos no tema " \o lesson.title_pt
                            \o ", e eu vou te guiar passo a passo."),
                        None, continue_pt2, mode)
        IN Fin("handle_frustration", st, base, q, lesson)

handle_thanks_or_greeting(lesson, st) ==
    LET mode == st.student_pref.language_mode
        p1 == pick_variant("ack", <<"De nada :)", "Imagina! :)", "Sempre! :)">>, st)
        p2 == pick_variant("ack_en", <<"You're welcome :)", "No problem :)", "Anytime :)">>, p1.state)
        ack_pt == p1.chosen
        ack_en == p2.chosen
        st2 == p2.state
        current_micro_goal == current_or_first_goal(lesson, st2)
    IN
    IF p1.raised # None THEN Raised("handle_thanks_or_greeting", p1.state, p1.raised)
    ELSE IF p2.raised # None THEN Raised("handle_thanks_or_greeting", p2.state, p2.raised)
    ELSE IF st2.is_learning_mode /\ HasPrompts(current_micro_goal) THEN
        LET base0 == format_bilingual(T(ack_pt \o " Então vamos usar isso no " \o lesson.title_pt \o "."),
                                      None,
                                      T("Quando você quer dizer como está, usamos o verbo to be."), mode)
            base == with_example(base0, current_micro_goal, "Exemplo:", mode)
            q == prompt_question(current_micro_goal, "Como você está hoje?", mode)
        IN Fin("handle_thanks_or_greeting", st2, base, q, lesson)
    ELSE
        LET base == format_bilingual(T(ack_pt), T(ack_en), None, mode)
            q == format_bilingual(T("Vamos praticar: como você está hoje?"),
                                  T("Let's practice: How are you today? Say: I am ___."), None, mode)
        IN Fin("handle_thanks_or_greeting", st2, base, q, lesson)

\* example.get('en', '').replace(example.get('en', '').split()[-1], '___')
blank_last_token(en) ==
    LET tokens == split_ws(en) IN replace(en, tokens[Len(tokens)], "___")

\* the feedback of handle_student_answer for the evaluation `result` of the answer
answer_feedback(result, g, lesson, st) ==
    LET mode == st.student_pref.language_mode
        confirm_pt == "Perfeito, entendi (y) Você quer dizer que " \o meaning_to_pt(result.meaning) \o "."
    IN
    IF result.errors = << >> THEN
        LET p == pick_variant("praise", <<"Muito bom!", "Excelente!", "Boa!", "Mandou bem!">>, st)
            produced_en == IF result.produced_en # None THEN Val(result.produced_en)
                           ELSE "I am " \o result.meaning
            base == format_bilingual(T(p.chosen \o " " \o confirm_pt), T(produced_en),
                        T("E já estamos praticando exatamente isso no tema " \o lesson.title_pt \o "."), mode)
            next_prompt == IF g.practice_prompts # << >> THEN g.practice_prompts[1] ELSE EmptyDict
            q == format_bilingual(
                    T(Get(next_prompt, "pt", "Agora vamos fazer mais uma bem parecida. Como você está?")),
                    T(Get(next_prompt, "target_en_hint", "I am ___.")), None, mode)
        IN IF p.raised # None THEN Raised("handle_student_answer", p.state, p.raised)
           ELSE Fin("handle_student_answer", p.state, base, q, lesson)
    ELSE
        LET e == result.errors[1]
            p == pick_variant("praise2", <<"Muito bom!", "Boa tentativa!", "Tá indo bem!">>, st)
            corrected_en == e.fix
            base == format_bilingual(T(p.chosen \o " " \o confirm_pt), T(corrected_en),
                        T(e.tip_pt \o " Vamos tentar de novo rapidinho :)"), mode)
            q0 == format_bilingual(T("Agora tente montar a frase comigo :)"),
                                   T("Now try to build the sentence with me:"), None, mode)
            q1 == IF g.examples # << >>
                     THEN NL(q0, format_bilingual(T("Complete:"),
                                    T(blank_last_token(Get(g.examples[1], "en", ""))), None, mode))
                     ELSE q0
            q == IF mode = LanguageMode.BILINGUAL THEN NL(q1, out_en(T(e.fix \o "."))) ELSE q1
        IN IF p.raised # None THEN Raised("handle_student_answer", p.state, p.raised)
           ELSE Fin("handle_student_answer", p.state, base, q, lesson)

\* seeded fault: an answer moves the lesson on to the next micro goal
answer_advances_lesson(student_text_, lesson, st) ==
    Raw("handle_student_answer",
        [st EXCEPT !.step_index = @ + 1, !.phase = Phase.FEEDBACK],
        format_bilingual(T("Vamos continuar praticando " \o lesson.title_pt \o "!"),
                         T("Let's continue practicing!"), None, st.student_pref.language_mode))

handle_student_answer(student_text_, lesson, st) ==
    LET mode == st.student_pref.language_mode
        current_micro_goal == current_or_last_goal(lesson, st)
    IN
    IF current_micro_goal = None THEN
        Raw("handle_student_answer", st,
            format_bilingual(T("Vamos continuar praticando " \o lesson.title_pt \o "!"),
                             T("Let's continue practicing!"), None, mode))
    ELSE
        answer_feedback(evaluate_answer(student_text_, Val(current_micro_goal)),
                        Val(current_micro_goal), lesson, st)

\* prompt_pt / prompt_en of the current goal with the defaults 'Como você está?' / 'I am ___.'
default_question(goal, mode) ==
    LET prompt_pt == IF HasPrompts(goal) THEN Get(Val(goal).practice_prompts[1], "pt", "Como você está?")
                     ELSE "Como você está?"
        prompt_en == IF HasPrompts(goal) THEN Get(Val(goal).practice_prompts[1], "target_en_hint", "I am ___.")
                     ELSE "I am ___."
    IN format_bilingual(T(prompt_pt), T(prompt_en), None, mode)

\* seeded fault: every redirect is counted in safety['loop_counter']
off_topic_counts_loop(lesson, st) ==
    LET mode == st.student_pref.language_mode
        current_micro_goal == current_or_first_goal(lesson, st)
        st1 == [st EXCEPT !.safety.loop_counter = @ + 1]
    IN Fin("handle_off_topic", st1,
           format_bilingual(T("Tranquilo :)"), None, None, mode),
           default_question(current_micro_goal, mode), lesson)

handle_off_topic(lesson, st) ==
    LET mode == st.student_pref.language_mode
        base0 == format_bilingual(
                    T("Tranquilo :) Estamos no tema " \o lesson.title_pt \o ", e eu vou te guiar passo a passo."),
                    None,
                    T("Vamos continuar praticando " \o lesson.title_pt \o "."), mode)
        current_micro_goal == current_or_first_goal(lesson, st)
        base == with_example(base0, current_micro_goal, "Lembra:", mode)
        q == default_question(current_micro_goal, mode)
    IN Fin("handle_off_topic", st, base, q, lesson)

\* the if/elif chain over the normalized text t that picks new_mode
requested_language_mode(t) ==
    IF Contains(t, "português") \/ Contains(t, "portugues") THEN LanguageMode.PT
    ELSE IF Contains(t, "inglês") \/ Contains(t, "ingles") \/ Contains(t, "english") THEN LanguageMode.EN
    ELSE LanguageMode.BILINGUAL

\* the body of handle_set_language_mode once new_mode is known
set_language_mode(new_mode, lesson, st) ==
    LET st1 == [st EXCEPT !.student_pref.language_mode = new_mode]
        mode == new_mode
        base0 == IF new_mode = LanguageMode.PT
                    THEN << "Fechado! Vou falar só em português e usar inglês só nos exemplos.",
                            "",
                            "Vamos continuar com o tema " \o lesson.title_pt \o "." >>
                 ELSE IF new_mode = LanguageMode.EN
                    THEN out_en(<< "Great! We'll use English only (I can keep it simple).",
                                   "",
                                   "Let's continue with " \o lesson.title_pt \o "." >>)
                 ELSE Cat(Cat(<< "Perfeito! Vamos em modo bilíngue: explico em PT e praticamos em EN.", "" >>,
                              out_en(T("Let's practice in English."))),
                          << "", "", "Vamos continuar com o tema " \o lesson.title_pt \o "." >>)
        current_micro_goal == current_or_first_goal(lesson, st1)
        base == with_example(base0, current_micro_goal, "Lembra:", mode)
        q == default_question(current_micro_goal, mode)
    IN Fin("handle_set_language_mode", st1, base, q, lesson)

handle_set_language_mode(student_text_, lesson, st) ==
    set_language_mode(requested_language_mode(normalize_text(student_text_)), lesson, st)

\* seeded fault: offering the options puts the language mode back to bilingual
stop_or_change_resets_mode(lesson, st) ==
    LET mode == st.student_pref.language_mode
        base == format_bilingual(
                    T("Sem problema :) Estamos no tema " \o lesson.title_pt \o ". O que você prefere agora?"),
                    None,
                    T("1) Continuar mais 2 perguntas do tema " \o lesson.title_pt
                        \o ". 2) Trocar de tema. 3) Revisar do zero."), mode)
        q == format_bilingual(T("Responde com 1, 2 ou 3."), T("Reply with 1, 2, or 3."), None, mode)
    IN Fin("handle_stop_or_change",
           [st EXCEPT !.student_pref.language_mode = LanguageMode.BILINGUAL], base, q, lesson)

handle_stop_or_change(lesson, st) ==
    LET mode == st.student_pref.language_mode
        base == format_bilingual(
                    T("Sem problema :) Estamos no tema " \o lesson.title_pt \o ". O que você prefere agora?"),
                    None,
                    T("1) Continuar mais 2 perguntas do tema " \o lesson.title_pt
                        \o ". 2) Trocar de tema. 3) Revisar do zero."), mode)
        q == format_bilingual(T("Responde com 1, 2 ou 3."), T("Reply with 1, 2, or 3."), None, mode)
    IN Fin("handle_stop_or_change", st, base, q, lesson)

----------------------------------------------------------------------------
(* Learning orchestrator: anti-loop guard and recovery                     *)

\* session_state.safety['repeated_bot_phrase_counter'].get('choose_question', 0)
choose_question_count(st) ==
    Get(st.safety.repeated_bot_phrase_counter, "choose_question", 0)

is_loop_risk(st, intent) ==
    IF st.safety.loop_counter >= 2 THEN TRUE
    ELSE IF choose_question_count(st) >= 1 THEN TRUE
    ELSE FALSE

\* recover_from_loop after its first statement has left the session as st1
recovery_turn(lesson, st1) ==
    LET mode == st1.student_pref.language_mode
        base == format_bilingual(T("Foi mal -- vou seguir a conversa com você direitinho agora :)"),
                                 None,
                                 T("Vamos voltar pro exercício sem botões nem etapas."), mode)
        current_micro_goal == IF st1.step_index < Len(lesson.micro_goals)
                                 THEN Some(lesson.micro_goals[st1.step_index + 1]) ELSE None
        q == default_question(current_micro_goal, mode)
    IN Fin("recover_from_loop", st1, base, q, lesson)

\* seeded fault: the recovery leaves safety['loop_counter'] as it found it
recover_without_reset(lesson, st) == recovery_turn(lesson, st)

recover_from_loop(lesson, st) == recovery_turn(lesson, [st EXCEPT !.safety.loop_counter = 0])

----------------------------------------------------------------------------
(* Learning orchestrator: main entry point                                 *)

\* the introduction generate_intro_message builds; st1 is the session it leaves
intro_message(lesson, st, st1) ==
    LET mode == st.student_pref.language_mode
        first_micro_goal == first_goal(lesson)
        intro_pt == << "Oi :)",
                       "Você escolheu Aprendizado - " \o lesson.title_pt \o ".",
                       "Hoje vamos usar o " \o lesson.title_pt \o " para falar de como estamos nos sentindo." >>
        example_text ==
            IF HasExamples(first_micro_goal)
               THEN LET example == Val(first_micro_goal).examples[1] IN
                    Cat(Cat(<< "", "", "Por exemplo:", "" >>, out_en(T(Get(example, "en", "I am happy.")))),
                        T(" -> " \o Get(example, "pt", "Eu estou feliz.")))
               ELSE T("")
        practice_text == << "", "", "Agora vamos praticar juntos (v)" >>
        question == IF HasPrompts(first_micro_goal)
                       THEN prompt_question(first_micro_goal, "Como você está hoje?", mode)
                       ELSE format_bilingual(T("Como você está hoje?"),
                                             T("How are you today? Say: I am ___."), None, mode)
        full_intro == NL(Cat(Cat(intro_pt, example_text), practice_text), question)
    IN [text |-> full_intro, state |-> st1, handler |-> "generate_intro_message",
        via_finalize |-> FALSE, question |-> question, raised |-> None]

\* seeded fault: the introduction forgets to clear is_first_message
intro_keeps_first_message(lesson, st) ==
    intro_message(lesson, st, [st EXCEPT !.phase = Phase.PRACTICE])

generate_intro_message(lesson, st) ==
    intro_message(lesson, st, [st EXCEPT !.is_first_message = FALSE, !.phase = Phase.PRACTICE])

\* the student utterances the model feeds to on_student_message
LearnUtterances ==
    { "",
      "football",
      "Thanks so much!",
      "I am happy today and excited for class",
      "I happy",
      "estou feliz",
      "did you understand",
      "what about you",
      "how do I say",
      "next",
      "so wrong",
      "tema errado",
      "em português",
      "só inglês",
      "bilingual" }

\* detect_intent tabulated over the utterances of the model
IntentOf == [u \in LearnUtterances |-> detect_intent(u)]

\* the result of a turn, tagged with the branch of on_student_message that returned it
Branch(branch, r) == [branch |-> branch] @@ r

\* the `# Escolhe ação` / `# Executa handler` part of on_student_message
policy_dispatch(intent, student_text_, lesson, st1) ==
    LET action == choose_policy_action(intent, st1) IN
    Branch("policy",
        IF action = "ANSWER_STUDENT_QUESTION_THEN_RETURN_TO_LESSON"
            THEN handle_question(intent, student_text_, lesson, st1)
        ELSE IF action = "DEESCALATE_CLARIFY_AND_REPAIR"
            THEN handle_frustration(student_text_, lesson, st1)
        ELSE IF action = "SET_LANGUAGE_MODE"
            THEN handle_set_language_mode(student_text_, lesson, st1)
        ELSE IF action = "ACK_AND_REDIRECT_TO_PRACTICE"
            THEN handle_thanks_or_greeting(lesson, st1)
        ELSE IF action = "EVALUATE_AND_FEEDBACK"
            THEN handle_student_answer(student_text_, lesson, st1)
        ELSE IF action = "GENTLE_REDIRECT"
            THEN handle_off_topic(lesson, st1)
        ELSE IF action = "OFFER_OPTIONS"
            THEN handle_stop_or_change(lesson, st1)
        ELSE handle_off_topic(lesson, st1))

\* seeded fault: the anti-loop guard is consulted before the forced redirect
on_student_message_guard_first(student_text_, lesson, st) ==
    IF st.is_first_message THEN
        Branch("first_message", generate_intro_message(lesson, st))
    ELSE
        LET intent == IntentOf[student_text_]
            st1 == [st EXCEPT !.last_student_intent = intent]
        IN
        IF is_loop_risk(st1, intent) THEN
            Branch("loop_guard", recover_from_loop(lesson, st1))
        ELSE IF st1.is_learning_mode /\ intent = Intent.OFF_TOPIC THEN
            Branch("forced_redirect", handle_off_topic(lesson, st1))
        ELSE policy_dispatch(intent, student_text_, lesson, st1)

\* seeded fault: no forced redirect, OFF_TOPIC is left to the guard and the policy
on_student_message_no_forced_redirect(student_text_, lesson, st) ==
    IF st.is_first_message THEN
        Branch("first_message", generate_intro_message(lesson, st))
    ELSE
        LET intent == IntentOf[student_text_]
            st1 == [st EXCEPT !.last_student_intent = intent]
        IN
        IF is_loop_risk(st1, intent) THEN
            Branch("loop_guard", recover_from_loop(lesson, st1))
        ELSE policy_dispatch(intent, student_text_, lesson, st1)

on_student_message(student_text_, lesson, st) ==
    IF st.is_first_message THEN
        Branch("first_message", generate_intro_message(lesson, st))
    ELSE
        LET intent == IntentOf[student_text_]
            st1 == [st EXCEPT !.last_student_intent = intent]
        IN
        IF st1.is_learning_mode /\ intent = Intent.OFF_TOPIC THEN
            Branch("forced_redirect", handle_off_topic(lesson, st1))
        ELSE IF is_loop_risk(st1, intent) THEN
            Branch("loop_guard", recover_from_loop(lesson, st1))
        ELSE policy_dispatch(intent, student_text_, lesson, st1)

----------------------------------------------------------------------------
(* Learning orchestrator: the state machine                                *)

NoCall ==
    [handler |-> "none", branch |-> "none", via_finalize |-> FALSE, question |-> None,
     raised |-> None]

\* the session objects a hosting layer hands in: a new SessionState whose public
\* fields loop_counter, step_index and is_learning_mode it may have set
InitLearning ==
    /\ lesson_spec \in LessonSpecs
    /\ \E lc \in 0..MaxLoopCounter, si \in 0..MaxStepIndex, lm \in BOOLEAN :
          session_state = [FreshSessionState EXCEPT !.safety.loop_counter = lc,
                                                    !.step_index = si,
                                                    !.is_learning_mode = lm]
    /\ student_text = ""
    /\ response = None
    /\ last_call = NoCall

\* the effect of a call with outcome r: the mutated session and what came back
LearningReturn(text, r) ==
    /\ session_state' = r.state
    /\ student_text' = text
    /\ response' = r.text
    /\ last_call' = [handler |-> r.handler, branch |-> r.branch,
                     via_finalize |-> r.via_finalize, question |-> r.question,
                     raised |-> r.raised]
    /\ UNCHANGED lesson_spec

\* one call on_student_message(text, lesson_spec, session_state)
LearningTurn(text) ==
    LearningReturn(text, on_student_message(text, lesson_spec, session_state))

NextLearning ==
    (\E text \in LearnUtterances : LearningTurn(text))
        /\ UNCHANGED simulator_vars /\ UNCHANGED pure_call /\ UNCHANGED requests

----------------------------------------------------------------------------
(* Simulator: enums and data model                                         *)

SimulatorIntent ==
    [CHECK_IN |-> "check_in",
     ASK_ROOM |-> "ask_room",
     REQUEST_VIEW |-> "request_view",
     ASK_CHECKOUT_TIME |-> "ask_checkout_time",
     PROVIDE_NAME |-> "provide_name",
     PROVIDE_RESERVATION |-> "provide_reservation",
     PROVIDE_DATES |-> "provide_dates",
     PROVIDE_ID |-> "provide_id",
     PROVIDE_PAYMENT |-> "provide_payment",
     REQUEST_SPECIAL |-> "request_special",
     CONFUSION |-> "confusion",
     OFF_TOPIC |-> "off_topic",
     ASK_FOR_TEACHING |-> "ask_for_teaching",
     RUDE_UNSAFE |-> "rude_unsafe",
     GREETING |-> "greeting",
     THANKS |-> "thanks"]

SimulatorStage ==
    [GREETING |-> 1,
     RESERVATION_DETAILS |-> 2,
     ID_AND_PAYMENT |-> 3,
     ROOM_PREFERENCES |-> 4,
     INFO_AND_CLOSING |-> 5,
     OPTIONAL_ISSUES |-> 6]

\* SimulatorState.__init__; an unset slot is None, a set slot is Some(value)
FreshSimulatorState ==
    [mode |-> "simulator",
     theme |-> "hotel",
     role |-> "front_desk",
     stage |-> SimulatorStage.GREETING,
     language_mode |-> "en",
     last_user_intent |-> "",
     last_required_slot |-> "name",
     slots |-> [name |-> None,
                reservation |-> None,
                dates |-> None,
                id_confirmed |-> FALSE,
                payment_method |-> None,
                preferences |-> [view |-> None, bed |-> None, smoking |-> None]],
     flags |-> [user_confused |-> FALSE,
                user_requested_teaching |-> FALSE,
                show_mini_feedback |-> FALSE,
                conversation_started |-> FALSE]]

\* Python truthiness of an optional str slot
Filled(slot) == slot # None /\ Val(slot) # ""

----------------------------------------------------------------------------
(* Simulator: intent detection                                             *)

\* re.search(r'\b(name|nome)\b', t)
has_name_word(t) ==
    \E i \in 1..Len(t) : \E w \in {"name", "nome"} :
        /\ (i = 1 \/ ~IsWord(Chr(t, i - 1)))
        /\ StartsAt(t, i, w)
        /\ (i + Len(w) > Len(t) \/ ~IsWord(Chr(t, i + Len(w))))

\* the rules of detect_simulator_intent over the normalized text t
classify_simulator(t, stage) ==
    IF ContainsAny(t, {"kill", "die", "hate", "stupid", "idiot", "shut up"}) THEN SimulatorIntent.RUDE_UNSAFE
    ELSE IF ContainsAny(t, {"teach", "ensina", "explain", "explica", "how do i say", "como falo"})
        THEN SimulatorIntent.ASK_FOR_TEACHING
    ELSE IF ContainsAny(t, {"hello", "hi", "hey", "good morning", "good evening", "good afternoon"})
        THEN SimulatorIntent.GREETING
    ELSE IF ContainsAny(t, {"thank", "thanks", "obrigado", "obrigada"}) THEN SimulatorIntent.THANKS
    ELSE IF ContainsAny(t, {"what", "huh", "sorry", "repeat", "again", "não entendi"}) THEN SimulatorIntent.CONFUSION
    ELSE IF /\ stage = SimulatorStage.GREETING \/ stage = SimulatorStage.RESERVATION_DETAILS
            /\ \/ ContainsAny(t, {"my name is", "i am", "i'm", "meu nome é", "eu sou"})
               \/ (has_name_word(t) /\ (Contains(t, "is") \/ Contains(t, "é")))
        THEN SimulatorIntent.PROVIDE_NAME
    ELSE IF /\ stage = SimulatorStage.RESERVATION_DETAILS
            /\ ContainsAny(t, {"reservation", "reserva", "book", "booked", "i have"})
        THEN SimulatorIntent.PROVIDE_RESERVATION
    ELSE IF /\ stage = SimulatorStage.RESERVATION_DETAILS
            /\ ContainsAny(t, {"check in", "check out", "stay", "night", "day", "date"})
        THEN SimulatorIntent.PROVIDE_DATES
    ELSE IF /\ stage = SimulatorStage.ID_AND_PAYMENT
            /\ ContainsAny(t, {"id", "passport", "document", "here", "passcard", "card"})
        THEN SimulatorIntent.PROVIDE_ID
    ELSE IF /\ stage = SimulatorStage.ID_AND_PAYMENT
            /\ ContainsAny(t, {"credit", "card", "cash", "pay", "payment", "pagamento"})
        THEN SimulatorIntent.PROVIDE_PAYMENT
    ELSE IF /\ stage = SimulatorStage.ROOM_PREFERENCES
            /\ ContainsAny(t, {"view", "beach", "city", "ocean", "window", "vista"})
        THEN SimulatorIntent.REQUEST_VIEW
    ELSE IF /\ stage = SimulatorStage.ROOM_PREFERENCES
            /\ ContainsAny(t, {"bed", "king", "single", "double", "twin"})
        THEN SimulatorIntent.ASK_ROOM
    ELSE IF ContainsAny(t, {"checkout", "check out", "leave", "time", "hour", "when"})
        THEN SimulatorIntent.ASK_CHECKOUT_TIME
    ELSE IF ContainsAny(t, {"late", "early", "wake up", "breakfast", "wifi", "internet"})
        THEN SimulatorIntent.REQUEST_SPECIAL
    ELSE IF stage > 1 THEN SimulatorIntent.OFF_TOPIC
    ELSE SimulatorIntent.CHECK_IN

\* seeded fault: the name rule is not gated by the stage
detect_name_in_any_stage(text, stage, slots) ==
    IF text = "" THEN SimulatorIntent.CONFUSION
    ELSE LET t == normalize_text(text)
             intent == classify_simulator(t, stage)
         IN IF /\ intent = SimulatorIntent.OFF_TOPIC
               /\ ContainsAny(t, {"my name is", "i am", "i'm", "meu nome é", "eu sou"})
               THEN SimulatorIntent.PROVIDE_NAME
               ELSE intent

\* seeded fault: a teaching request is recognised before the hostile tokens
detect_teaching_before_safety(text, stage, slots) ==
    IF text = "" THEN SimulatorIntent.CONFUSION
    ELSE IF ContainsAny(normalize_text(text), {"teach", "ensina", "explain", "explica", "how do i say", "como falo"})
        THEN SimulatorIntent.ASK_FOR_TEACHING
    ELSE classify_simulator(normalize_text(text), stage)

detect_simulator_intent(text, stage, slots) ==
    IF text = "" THEN SimulatorIntent.CONFUSION ELSE classify_simulator(normalize_text(text), stage)

----------------------------------------------------------------------------
(* Simulator: slot filling                                                 *)

\* the 'name' rules of extract_slot_value over the normalized text t
extract_name(t) ==
    LET m == FirstMatch(t, <<"my name is ", "i am ", "i'm ", "name is ", "meu nome é ", "eu sou ">>)
        words == split_ws(t)
    IN IF m # None THEN Some(title(Val(m)))
       ELSE IF Len(words) > 2 THEN Some(title(words[Len(words)]))
       ELSE None

\* the rules of extract_slot_value over the normalized text t
extract_from(t, slot_type) ==
    IF slot_type = "name" THEN extract_name(t)
    ELSE IF slot_type = "reservation" THEN
        (IF Contains(t, "yes") \/ Contains(t, "sim") \/ Contains(t, "have") THEN Some("yes")
         ELSE IF Contains(t, "no") \/ Contains(t, "não") \/ Contains(t, "don't") THEN Some("no")
         ELSE None)
    ELSE IF slot_type = "dates" THEN
        (IF ContainsAny(t, {"night", "nights", "day", "days", "week", "weeks"}) THEN Some("extracted")
         ELSE None)
    ELSE IF slot_type = "payment" THEN
        (IF Contains(t, "credit") \/ Contains(t, "card") THEN Some("credit_card")
         ELSE IF Contains(t, "cash") \/ Contains(t, "dinheiro") THEN Some("cash")
         ELSE IF Contains(t, "debit") THEN Some("debit_card")
         ELSE None)
    ELSE IF slot_type = "view" THEN
        (IF Contains(t, "beach") \/ Contains(t, "ocean") \/ Contains(t, "mar") THEN Some("beach")
         ELSE IF Contains(t, "city") \/ Contains(t, "cidade") THEN Some("city")
         ELSE None)
    ELSE IF slot_type = "bed" THEN
        (IF Contains(t, "king") THEN Some("king")
         ELSE IF Contains(t, "single") \/ Contains(t, "twin") THEN Some("twin")
         ELSE IF Contains(t, "double") THEN Some("double")
         ELSE None)
    ELSE None

extract_slot_value(text, slot_type) == extract_from(normalize_text(text), slot_type)

----------------------------------------------------------------------------
(* Simulator: the utterances of the model and the tabulated classifiers    *)

SimUtterances ==
    { "",
      "Good evening",
      "My name is Wesley",
      "I am Ana",
      "Yes, I have a reservation",
      "No reservation",
      "I booked a room",
      "two nights",
      "here is my passport",
      "cash",
      "credit card",
      "I want to pay",
      "pay by debit",
      "beach view",
      "city",
      "a room with a window",
      "king bed",
      "twin",
      "a big bed",
      "thanks",
      "sorry",
      "teach me",
      "you idiot",
      "breakfast",
      "late checkout",
      "football",
      "teach me, you idiot",
      "hello, I hate this",
      "thanks, stupid",
      "sorry, shut up",
      "my name is Wesley, idiot",
      "hello, teach me",
      "hello, thanks",
      "thanks, sorry",
      "sorry, my name is Ana",
      "I am" }

Themes == {"hotel", "bank", "restaurant", "airport"}

\* detect_simulator_intent tabulated over the utterances and stages of the model
SimIntentOf == [u \in SimUtterances |-> [stage \in Members(SimulatorStage) |-> detect_simulator_intent(u, stage, None)]]

\* extract_slot_value tabulated over the utterances of the model
SlotValueOf ==
    [u \in SimUtterances |->
        [slot_type \in {"name", "reservation", "dates", "payment", "view", "bed"} |->
            extract_slot_value(u, slot_type)]]

\* normalize_text tabulated over the utterances of the model
SimNormalized == [u \in SimUtterances |-> normalize_text(u)]

----------------------------------------------------------------------------
(* Simulator: stage handlers.  A handler yields the response (None when    *)
(* the Python function returns None), the state it leaves and the list of  *)
(* handlers that ran.                                                      *)

Out(name, state, resp) == [response |-> resp, state |-> state, handlers |-> <<name>>]

\* seeded fault: the opening greeting does not record that the conversation started
greeting_forgets_started(state, theme) ==
    IF ~state.flags.conversation_started THEN
        IF theme = "hotel"
            THEN Out("handle_stage_greeting", state, Some("Good evening! Welcome to Sunset Hotel. Are you checking in?"))
        ELSE IF theme = "bank"
            THEN Out("handle_stage_greeting", state, Some("Good morning! Welcome to First National Bank. How can I help you today?"))
        ELSE IF theme = "restaurant"
            THEN Out("handle_stage_greeting", state, Some("Good evening! Welcome to our restaurant. Do you have a reservation?"))
        ELSE Out("handle_stage_greeting", state, Some("Hello! How can I help you today?"))
    ELSE Out("handle_stage_greeting", state, None)

handle_stage_greeting(state, theme) ==
    IF ~state.flags.conversation_started THEN
        LET st1 == [state EXCEPT !.flags.conversation_started = TRUE] IN
        IF theme = "hotel"
            THEN Out("handle_stage_greeting", st1, Some("Good evening! Welcome to Sunset Hotel. Are you checking in?"))
        ELSE IF theme = "bank"
            THEN Out("handle_stage_greeting", st1, Some("Good morning! Welcome to First National Bank. How can I help you today?"))
        ELSE IF theme = "restaurant"
            THEN Out("handle_stage_greeting", st1, Some("Good evening! Welcome to our restaurant. Do you have a reservation?"))
        ELSE Out("handle_stage_greeting", st1, Some("Hello! How can I help you today?"))
    ELSE Out("handle_stage_greeting", state, None)

\* the default tail of handle_stage_reservation
reservation_default(state) ==
    IF ~Filled(state.slots.name) THEN "May I have your name, please?"
    ELSE IF state.slots.reservation = None
        THEN "Thank you, " \o Val(state.slots.name) \o ". Do you have a reservation?"
    ELSE "How can I help you today?"

\* the PROVIDE_NAME branch of handle_stage_reservation for the extracted name
reservation_name(state, name) ==
    IF Filled(name)
        THEN Out("handle_stage_reservation", [state EXCEPT !.slots.name = name],
                 "Thank you, " \o Val(name) \o ". Do you have a reservation?")
        ELSE Out("handle_stage_reservation", state,
                 "I didn't catch your name. Could you tell me your name, please?")

\* seeded fault: the PROVIDE_RESERVATION branch stores whatever was extracted
reservation_stored_unchecked(state, reservation) ==
    Out("handle_stage_reservation",
        [state EXCEPT !.slots.reservation = IF reservation = None THEN None
                                            ELSE Some(reservation = Some("yes"))],
        IF reservation = Some("yes") THEN "Great! May I have your name, please?"
        ELSE IF reservation = Some("no")
            THEN "No problem. Let me check what rooms we have available. How many nights will you be staying?"
        ELSE "I'm not sure if you have a reservation. Do you have one, or would you like to book a room?")

\* the PROVIDE_RESERVATION branch of handle_stage_reservation for the extracted value
reservation_answer(state, reservation) ==
    IF reservation = Some("yes") THEN
        Out("handle_stage_reservation", [state EXCEPT !.slots.reservation = Some(TRUE)],
            IF Filled(state.slots.name)
               THEN "Perfect -- a reservation under " \o Val(state.slots.name) \o ". Could I see your ID, please?"
               ELSE "Great! May I have your name, please?")
    ELSE IF reservation = Some("no") THEN
        Out("handle_stage_reservation", [state EXCEPT !.slots.reservation = Some(FALSE)],
            "No problem. Let me check what rooms we have available. How many nights will you be staying?")
    ELSE Out("handle_stage_reservation", state,
             "I'm not sure if you have a reservation. Do you have one, or would you like to book a room?")

handle_stage_reservation(state, intent, text) ==
    IF intent = SimulatorIntent.PROVIDE_NAME THEN reservation_name(state, SlotValueOf[text]["name"])
    ELSE IF intent = SimulatorIntent.PROVIDE_RESERVATION THEN reservation_answer(state, SlotValueOf[text]["reservation"])
    ELSE IF intent = SimulatorIntent.CONFUSION
        THEN Out("handle_stage_reservation", state, "No worries. Are you checking in today? Do you have a reservation?")
    ELSE Out("handle_stage_reservation", state, reservation_default(state))

\* the default tail of handle_stage_id_payment
id_payment_default(state) ==
    IF ~state.slots.id_confirmed THEN "May I see your ID, please?"
    ELSE IF ~Filled(state.slots.payment_method) THEN "How would you like to pay -- credit card or cash?"
    ELSE "Is there anything else I can help you with?"

\* the PROVIDE_PAYMENT branch of handle_stage_id_payment for the extracted value
id_payment_answer(state, payment) ==
    IF Filled(payment) THEN
        IF state.slots.id_confirmed
           THEN Out("handle_stage_id_payment",
                    [state EXCEPT !.slots.payment_method = payment, !.stage = SimulatorStage.ROOM_PREFERENCES],
                    "Perfect. Here's your key card. Would you like a room with a beach view or a city view?")
           ELSE Out("handle_stage_id_payment", [state EXCEPT !.slots.payment_method = payment],
                    "Great. May I see your ID, please?")
    ELSE Out("handle_stage_id_payment", state, "How would you like to pay -- credit card or cash?")

handle_stage_id_payment(state, intent, text) ==
    IF intent = SimulatorIntent.PROVIDE_ID THEN
        IF Filled(state.slots.payment_method)
           THEN Out("handle_stage_id_payment",
                    [state EXCEPT !.slots.id_confirmed = TRUE, !.stage = SimulatorStage.ROOM_PREFERENCES],
                    "Thank you. Here's your key card. Would you like a room with a beach view or a city view?")
           ELSE Out("handle_stage_id_payment", [state EXCEPT !.slots.id_confirmed = TRUE],
                    "Thank you. How would you like to pay -- credit card or cash?")
    ELSE IF intent = SimulatorIntent.PROVIDE_PAYMENT THEN id_payment_answer(state, SlotValueOf[text]["payment"])
    ELSE IF intent = SimulatorIntent.CONFUSION /\ ~state.slots.id_confirmed
        THEN Out("handle_stage_id_payment", state, "Could I see your ID or passport, please?")
    ELSE IF intent = SimulatorIntent.CONFUSION /\ ~Filled(state.slots.payment_method)
        THEN Out("handle_stage_id_payment", state, "How would you like to pay -- credit card or cash?")
    ELSE Out("handle_stage_id_payment", state, id_payment_default(state))

handle_stage_info_closing(state) ==
    Out("handle_stage_info_closing", state,
        "Perfect! Checkout is at 11 a.m. Breakfast is from 7 to 10 in the morning. Here is your key card. Room 305. Enjoy your stay!")

\* the default tail of handle_stage_room_preferences
room_preferences_default(state) ==
    IF ~Filled(state.slots.preferences.view) THEN "Would you like a room with a beach view or a city view?"
    ELSE IF ~Filled(state.slots.preferences.bed) THEN "King bed or two singles?"
    ELSE "Is there anything else you need?"

\* seeded fault: a view request that names no view is taken as a city view
view_defaults_to_city(state, view) ==
    LET v == IF Filled(view) THEN view ELSE Some("city") IN
    Out("handle_stage_room_preferences",
        [state EXCEPT !.slots.preferences.view = v, !.stage = SimulatorStage.INFO_AND_CLOSING],
        "Perfect -- a " \o Val(v) \o " view room. King bed or two singles?")

\* seeded fault: the view is stored but the stage stays ROOM_PREFERENCES
view_stored_without_advance(state, view) ==
    IF Filled(view)
       THEN Out("handle_stage_room_preferences",
                [state EXCEPT !.slots.preferences.view = view],
                "Perfect -- a " \o Val(view) \o " view room. King bed or two singles?")
       ELSE Out("handle_stage_room_preferences", state, "Would you like a beach view or a city view?")

\* the REQUEST_VIEW branch of handle_stage_room_preferences for the extracted value
room_view_answer(state, view) ==
    IF Filled(view)
       THEN Out("handle_stage_room_preferences",
                [state EXCEPT !.slots.preferences.view = view, !.stage = SimulatorStage.INFO_AND_CLOSING],
                "Perfect -- a " \o Val(view) \o " view room. King bed or two singles?")
       ELSE Out("handle_stage_room_preferences", state, "Would you like a beach view or a city view?")

\* seeded fault: the bed answer, which already returns the closing text, moves
\* the stage past INFO_AND_CLOSING
bed_answer_skips_closing(state, bed) ==
    IF Filled(bed)
       THEN [response |-> handle_stage_info_closing(state).response,
             state |-> [state EXCEPT !.slots.preferences.bed = bed, !.stage = SimulatorStage.OPTIONAL_ISSUES],
             handlers |-> <<"handle_stage_room_preferences", "handle_stage_info_closing">>]
       ELSE Out("handle_stage_room_preferences", state, "King bed or two singles?")

\* the ASK_ROOM branch of handle_stage_room_preferences for the extracted value
room_bed_answer(state, bed) ==
    IF Filled(bed)
       THEN [response |-> handle_stage_info_closing(state).response,
             state |-> [state EXCEPT !.slots.preferences.bed = bed, !.stage = SimulatorStage.INFO_AND_CLOSING],
             handlers |-> <<"handle_stage_room_preferences", "handle_stage_info_closing">>]
       ELSE Out("handle_stage_room_preferences", state, "King bed or two singles?")

handle_stage_room_preferences(state, intent, text) ==
    IF intent = SimulatorIntent.REQUEST_VIEW THEN room_view_answer(state, SlotValueOf[text]["view"])
    ELSE IF intent = SimulatorIntent.ASK_ROOM THEN room_bed_answer(state, SlotValueOf[text]["bed"])
    ELSE IF intent = SimulatorIntent.CONFUSION
        THEN Out("handle_stage_room_preferences", state, "Would you like a room with a beach view or a city view?")
    ELSE Out("handle_stage_room_preferences", state, room_preferences_default(state))

\* the REQUEST_SPECIAL branch of handle_stage_optional_issues over the normalized text t
special_request_answer(t) ==
    IF Contains(t, "late") /\ Contains(t, "checkout") THEN "I can arrange a late checkout until 2 p.m. Is that okay?"
    ELSE IF Contains(t, "breakfast") THEN "Breakfast is from 7 to 10 a.m. in the restaurant on the first floor."
    ELSE IF Contains(t, "wifi") \/ Contains(t, "internet")
        THEN "WiFi is free. The password is 'SUNSET2024'. It's on your key card too."
    ELSE "I'll note that. Is there anything else?"

\* seeded fault: stage 6 hands a turn that is no special request back to stage 5
optional_issues_back_to_closing(state, intent, text) ==
    IF intent = SimulatorIntent.REQUEST_SPECIAL
       THEN Out("handle_stage_optional_issues", state, special_request_answer(SimNormalized[text]))
       ELSE Out("handle_stage_optional_issues", [state EXCEPT !.stage = SimulatorStage.INFO_AND_CLOSING],
                "Is there anything else I can help you with?")

handle_stage_optional_issues(state, intent, text) ==
    IF intent = SimulatorIntent.REQUEST_SPECIAL
       THEN Out("handle_stage_optional_issues", state, special_request_answer(SimNormalized[text]))
       ELSE Out("handle_stage_optional_issues", state, "Is there anything else I can help you with?")

----------------------------------------------------------------------------
(* Simulator: cross-cutting handlers                                       *)

handle_teaching_request(state) ==
    Out("handle_teaching_request", [state EXCEPT !.flags.user_requested_teaching = TRUE],
        "I can continue helping you here, or if you'd like, we can switch to Learning mode where I'll teach you step by step. Which do you prefer?")

handle_rude_unsafe(state) ==
    Out("handle_rude_unsafe", state, "Let's keep it friendly :) So, do you have a reservation?")

\* seeded fault: in stages 2 to 4 a confused turn is handed to the stage handler
confusion_delegated_to_stage(state, stage) ==
    LET st1 == [state EXCEPT !.flags.user_confused = TRUE] IN
    IF stage = SimulatorStage.RESERVATION_DETAILS
        THEN handle_stage_reservation(st1, SimulatorIntent.CONFUSION, "")
    ELSE IF stage = SimulatorStage.ID_AND_PAYMENT
        THEN handle_stage_id_payment(st1, SimulatorIntent.CONFUSION, "")
    ELSE IF stage = SimulatorStage.ROOM_PREFERENCES
        THEN handle_stage_room_preferences(st1, SimulatorIntent.CONFUSION, "")
    ELSE Out("handle_confusion", st1,
             IF stage = SimulatorStage.GREETING THEN "No worries. Are you checking in today?"
             ELSE "Sorry, I didn't catch that. Could you say it again?")

handle_confusion(state, stage) ==
    Out("handle_confusion", [state EXCEPT !.flags.user_confused = TRUE],
        IF stage = SimulatorStage.GREETING THEN "No worries. Are you checking in today?"
        ELSE IF stage = SimulatorStage.RESERVATION_DETAILS
            THEN "Let me help. Do you have a reservation, or would you like to book a room?"
        ELSE IF stage = SimulatorStage.ID_AND_PAYMENT
            THEN "Could you repeat that, please? I need to see your ID and know how you'd like to pay."
        ELSE "Sorry, I didn't catch that. Could you say it again?")

\* seeded fault: the off-topic redirect also sends the guest back to the reservation stage
off_topic_back_to_reservation(state) ==
    Out("handle_off_topic",
        [state EXCEPT !.stage = IF state.stage = SimulatorStage.GREETING
                                   THEN state.stage ELSE SimulatorStage.RESERVATION_DETAILS],
        IF state.stage = SimulatorStage.GREETING THEN "Welcome! Are you checking in today?"
        ELSE "Let's get you checked in. May I have your name, please?")

sim_handle_off_topic(state) ==
    Out("handle_off_topic", state,
        IF state.stage = SimulatorStage.GREETING THEN "Welcome! Are you checking in today?"
        ELSE IF Filled(state.slots.name)
            THEN "Let's focus on your check-in, " \o Val(state.slots.name) \o ". Do you have a reservation?"
        ELSE "Let's get you checked in. May I have your name, please?")

handle_thanks(state, stage) ==
    Out("handle_thanks", state,
        IF stage = SimulatorStage.GREETING THEN "You're welcome. Are you checking in today?"
        ELSE IF stage = SimulatorStage.RESERVATION_DETAILS THEN
            (IF ~Filled(state.slots.name) THEN "You're welcome. May I have your name, please?"
             ELSE IF state.slots.reservation = None THEN "You're welcome. Do you have a reservation?"
             ELSE "You're welcome. Could I see your ID, please?")
        ELSE "You're welcome. Is there anything else I can help you with?")

----------------------------------------------------------------------------
(* Simulator: main orchestrator                                            *)

forbidden_phrases ==
    << "let's practice",
       "now i will teach",
       "what do you think",
       "how about you",
       "i will teach you",
       "vamos praticar",
       "agora vou te ensinar",
       "o que você acha" >>

\* one iteration of the loop of validate_simulator_response; response_lower is
\* computed once, before the loop, from the response as it came in
validate_phrase(resp, response_lower, phrase) ==
    IF ~Contains(response_lower, phrase) THEN resp
    ELSE IF Contains(response_lower, "let's practice") \/ Contains(response_lower, "vamos praticar")
        THEN replace(resp, phrase, "how can I help you")
    ELSE IF Contains(response_lower, "teach") \/ Contains(response_lower, "ensinar")
        THEN replace(resp, phrase, "I can help you with that")
    ELSE IF Contains(response_lower, "what do you think") \/ Contains(response_lower, "how about you")
        THEN replace(resp, phrase, "is there anything else")
    ELSE resp

RECURSIVE validate_loop(_, _, _)
\* the iterations of the loop from phrase number i on
validate_loop(resp, response_lower, i) ==
    IF i > Len(forbidden_phrases) THEN resp
    ELSE validate_loop(validate_phrase(resp, response_lower, forbidden_phrases[i]), response_lower, i + 1)

validate_simulator_response(resp) == validate_loop(resp, lower(resp), 1)

\* the strings the handlers return: their string literals, and their formatted
\* strings for the names and views extract_slot_value yields
HandlerResponses ==
    LET names == {Val(SlotValueOf[u]["name"]) : u \in {v \in SimUtterances : SlotValueOf[v]["name"] # None}}
        views == {Val(SlotValueOf[u]["view"]) : u \in {v \in SimUtterances : SlotValueOf[v]["view"] # None}}
    IN
    {"Thank you, " \o n \o ". Do you have a reservation?" : n \in names}
        \cup {"Perfect -- a reservation under " \o n \o ". Could I see your ID, please?" : n \in names}
        \cup {"Let's focus on your check-in, " \o n \o ". Do you have a reservation?" : n \in names}
        \cup {"Perfect -- a " \o v \o " view room. King bed or two singles?" : v \in views}
        \cup
    {
      "Good evening! Welcome to Sunset Hotel. Are you checking in?",
      "Good morning! Welcome to First National Bank. How can I help you today?",
      "Good evening! Welcome to our restaurant. Do you have a reservation?",
      "Hello! How can I help you today?",
      "I didn't catch your name. Could you tell me your name, please?",
      "Great! May I have your name, please?",
      "No problem. Let me check what rooms we have available. How many nights will you be staying?",
      "I'm not sure if you have a reservation. Do you have one, or would you like to book a room?",
      "No worries. Are you checking in today? Do you have a reservation?",
      "May I have your name, please?",
      "How can I help you today?",
      "Thank you. Here's your key card. Would you like a room with a beach view or a city view?",
      "Thank you. How would you like to pay -- credit card or cash?",
      "Perfect. Here's your key card. Would you like a room with a beach view or a city view?",
      "Great. May I see your ID, please?",
      "How would you like to pay -- credit card or cash?",
      "Could I see your ID or passport, please?",
      "May I see your ID, please?",
      "Is there anything else I can help you with?",
      "Would you like a beach view or a city view?",
      "King bed or two singles?",
      "Would you like a room with a beach view or a city view?",
      "Is there anything else you need?",
      "Perfect! Checkout is at 11 a.m. Breakfast is from 7 to 10 in the morning. Here is your key card. Room 305. Enjoy your stay!",
      "I can arrange a late checkout until 2 p.m. Is that okay?",
      "Breakfast is from 7 to 10 a.m. in the restaurant on the first floor.",
      "WiFi is free. The password is 'SUNSET2024'. It's on your key card too.",
      "I'll note that. Is there anything else?",
      "I can continue helping you here, or if you'd like, we can switch to Learning mode where I'll teach you step by step. Which do you prefer?",
      "Let's keep it friendly :) So, do you have a reservation?",
      "No worries. Are you checking in today?",
      "Let me help. Do you have a reservation, or would you like to book a room?",
      "Could you repeat that, please? I need to see your ID and know how you'd like to pay.",
      "Sorry, I didn't catch that. Could you say it again?",
      "Welcome! Are you checking in today?",
      "Let's get you checked in. May I have your name, please?",
      "You're welcome. Are you checking in today?",
      "You're welcome. May I have your name, please?",
      "You're welcome. Do you have a reservation?",
      "You're welcome. Could I see your ID, please?",
      "You're welcome. Is there anything else I can help you with?" }

\* validate_simulator_response tabulated over the responses the handlers return
ValidatedOf == [r \in HandlerResponses |-> validate_simulator_response(r)]

\* seeded fault: the handler's response is returned as it is, with no validation
returned_unvalidated(r, intent) ==
    [response |-> r.response,
     raw |-> r.response,
     state |-> r.state,
     handlers |-> r.handlers,
     validated |-> FALSE,
     intent |-> intent]

\* `return validate_simulator_response(response)` after the handler result r
Validated(r, intent) ==
    [response |-> ValidatedOf[r.response],
     raw |-> r.response,
     state |-> r.state,
     handlers |-> r.handlers,
     validated |-> TRUE,
     intent |-> intent]

\* seeded fault: the stage-2 branch advances as soon as the name is filled
advance_on_name_only(r) ==
    IF Filled(r.state.slots.name)
       THEN [r EXCEPT !.state.stage = SimulatorStage.ID_AND_PAYMENT]
       ELSE r

\* the stage-2 branch: the stage advances once name and reservation are filled
advance_reservation(r) ==
    IF Filled(r.state.slots.name) /\ r.state.slots.reservation # None
       THEN [r EXCEPT !.state.stage = SimulatorStage.ID_AND_PAYMENT]
       ELSE r

\* seeded fault: the stage-3 branch advances as soon as the ID is confirmed
advance_on_id_only(r) ==
    IF r.state.slots.id_confirmed
       THEN [r EXCEPT !.state.stage = SimulatorStage.ROOM_PREFERENCES]
       ELSE r

\* the stage-3 branch: the stage advances once ID and payment are filled
advance_id_payment(r) ==
    IF r.state.slots.id_confirmed /\ Filled(r.state.slots.payment_method)
       THEN [r EXCEPT !.state.stage = SimulatorStage.ROOM_PREFERENCES]
       ELSE r

\* the stage-1 branch after the optional greeting g: fall through to stage 2
greeting_fallthrough(g, intent, text) ==
    LET r == handle_stage_reservation([g.state EXCEPT !.stage = SimulatorStage.RESERVATION_DETAILS], intent, text)
    IN [r EXCEPT !.handlers = g.handlers \o r.handlers]

\* the stage-1 branch of on_simulator_message
stage_greeting_branch(state, intent, text, theme) ==
    IF intent = SimulatorIntent.GREETING THEN
        LET g == handle_stage_greeting(state, theme) IN
        IF Filled(g.response)
           THEN [g EXCEPT !.response = Val(g.response)]
           ELSE greeting_fallthrough(g, intent, text)
    ELSE greeting_fallthrough([state |-> state, handlers |-> << >>], intent, text)

\* on_simulator_message after intent detection; state already carries last_user_intent
dispatch_simulator(state, intent, text, theme) ==
    IF intent = SimulatorIntent.ASK_FOR_TEACHING THEN handle_teaching_request(state)
    ELSE IF intent = SimulatorIntent.RUDE_UNSAFE THEN handle_rude_unsafe(state)
    ELSE IF intent = SimulatorIntent.THANKS THEN handle_thanks(state, state.stage)
    ELSE IF intent = SimulatorIntent.CONFUSION THEN handle_confusion(state, state.stage)
    ELSE IF intent = SimulatorIntent.OFF_TOPIC THEN sim_handle_off_topic(state)
    ELSE IF state.stage = SimulatorStage.GREETING THEN stage_greeting_branch(state, intent, text, theme)
    ELSE IF state.stage = SimulatorStage.RESERVATION_DETAILS
        THEN advance_reservation(handle_stage_reservation(state, intent, text))
    ELSE IF state.stage = SimulatorStage.ID_AND_PAYMENT
        THEN advance_id_payment(handle_stage_id_payment(state, intent, text))
    ELSE IF state.stage = SimulatorStage.ROOM_PREFERENCES THEN handle_stage_room_preferences(state, intent, text)
    ELSE IF state.stage = SimulatorStage.INFO_AND_CLOSING THEN
        (IF intent = SimulatorIntent.REQUEST_SPECIAL
            THEN handle_stage_optional_issues([state EXCEPT !.stage = SimulatorStage.OPTIONAL_ISSUES], intent, text)
            ELSE [response |-> "Is there anything else I can help you with?",
                  state |-> state, handlers |-> << >>])
    ELSE IF state.stage = SimulatorStage.OPTIONAL_ISSUES THEN handle_stage_optional_issues(state, intent, text)
    ELSE [response |-> "How can I help you today?", state |-> state, handlers |-> << >>]

on_simulator_message(student_text_, state, theme) ==
    LET intent == SimIntentOf[student_text_][state.stage]
    IN Validated(dispatch_simulator([state EXCEPT !.last_user_intent = intent],
                                    intent, student_text_, theme),
                 intent)

----------------------------------------------------------------------------
(* State machine of the simulator                                          *)

NoSimCall ==
    [handlers |-> << >>, validated |-> FALSE, raw |-> "", intent |-> "",
     stage_before |-> SimulatorStage.GREETING]

InitSimulator ==
    /\ sim_state = FreshSimulatorState
    /\ sim_text = ""
    /\ sim_response = ""
    /\ sim_call = NoSimCall

\* the caller stores what on_simulator_message returned (r) for the utterance
SimulatorReturn(text, r) ==
    /\ sim_state' = r.state
    /\ sim_text' = text
    /\ sim_response' = r.response
    /\ sim_call' = [handlers |-> r.handlers, validated |-> r.validated, raw |-> r.raw,
                    intent |-> r.intent, stage_before |-> sim_state.stage]

\* one call on_simulator_message(text, state, theme)
SimulatorTurn(text, theme) ==
    SimulatorReturn(text, on_simulator_message(text, sim_state, theme))

NextSimulator ==
    (\E text \in SimUtterances, theme \in Themes : SimulatorTurn(text, theme))
        /\ UNCHANGED learning_vars /\ UNCHANGED pure_call /\ UNCHANGED requests

----------------------------------------------------------------------------
(* Specifications                                                          *)

\* no pure function has been called directly
NoPureCall == [fn |-> "", args |-> << >>, result |-> << >>]

\* the two callers that share one session
Callers == {1, 2}

Other(p) == 3 - p

\* neither caller has called on_student_message yet
NoRequests ==
    [p \in Callers |->
        [pc |-> "idle", text |-> "", full_intro |-> None, handler |-> "", response |-> None,
         after |-> FALSE]]

Init == InitLearning /\ InitSimulator /\ pure_call = NoPureCall /\ requests = NoRequests

\* the learning orchestrator driven by any sequence of student utterances
SpecLearning == Init /\ [][NextLearning]_vars

\* the learning orchestrator before its first session, while the simulator runs
IdleLearning ==
    /\ lesson_spec = Lesson_verb_to_be
    /\ session_state = FreshSessionState
    /\ student_text = ""
    /\ response = None
    /\ last_call = NoCall

InitSim == IdleLearning /\ InitSimulator /\ pure_call = NoPureCall /\ requests = NoRequests

\* the simulator driven by any sequence of student utterances
SpecSimulator == InitSim /\ [][NextSimulator]_vars

----------------------------------------------------------------------------
(* The pure functions of both orchestrators, called directly               *)

\* pieces of the responses handed to validate_simulator_response: the forbidden
\* phrases, three of them capitalised, one short of its last letters, and
\* ordinary text
ValidatorFragments ==
    { "let's practice", "now i will teach", "what do you think", "how about you",
      "i will teach you", "vamos praticar", "agora vou te ensinar", "o que você acha",
      "Let's practice", "How about you", "Now I will teach",
      "now i will teac", " ordering coffee, " }

RECURSIVE FragmentTexts(_)
\* the texts made of at most n fragments
FragmentTexts(n) ==
    IF n = 0 THEN {""}
    ELSE LET shorter == FragmentTexts(n - 1)
         IN shorter \cup {t \o f : t \in shorter, f \in ValidatorFragments}

\* the responses the model hands to validate_simulator_response
ValidatorInputs ==
    FragmentTexts(MaxFragments) \cup {"Let's practice ordering coffee, how about you?"}

\* one call validate_simulator_response(x)
ValidateCall(x) ==
    /\ pure_call.fn = NoPureCall.fn
    /\ pure_call' = [fn |-> "validate_simulator_response", args |-> <<x>>,
                      result |-> validate_simulator_response(x)]
    /\ UNCHANGED learning_vars
    /\ UNCHANGED simulator_vars
    /\ UNCHANGED requests

\* the utterances handed to detect_intent: those of the learning turns, and
\* utterances that match several rules, none, or the greeting rule but for length
DetectIntentInputs ==
    LearnUtterances \cup
    { "   ",
      "xyz",
      "hello",
      "em português, did you understand",
      "did you understand and you",
      "what about you, wrong",
      "so wrong, thanks",
      "hello how do I say",
      "hello, how do I say happy",
      "thanks, what do you think",
      "grammar next",
      "next I am happy",
      "stop, I am sad",
      "bye, next",
      "obrigado, em portugues",
      "I am happy" }

\* one call detect_intent(text)
DetectIntentCall(text) ==
    /\ pure_call.fn = NoPureCall.fn
    /\ pure_call' = [fn |-> "detect_intent", args |-> <<text>>,
                      result |-> detect_intent(text)]
    /\ UNCHANGED learning_vars
    /\ UNCHANGED simulator_vars
    /\ UNCHANGED requests

\* the values handed to choose_policy_action as intent: the members of Intent,
\* and two values that are no member
PolicyIntents == Members(Intent) \cup {"", "check_in"}

\* the session states handed to the pure functions of the learning orchestrator
PolicySessions ==
    { [FreshSessionState EXCEPT !.safety.loop_counter = lc,
                                !.is_learning_mode = lm,
                                !.is_first_message = fm] :
        lc \in 0..MaxLoopCounter, lm \in BOOLEAN, fm \in BOOLEAN }

\* one call choose_policy_action(intent, session_state)
ChoosePolicyCall(intent, st) ==
    /\ pure_call.fn = NoPureCall.fn
    /\ pure_call' = [fn |-> "choose_policy_action", args |-> <<intent, st>>,
                      result |-> choose_policy_action(intent, st)]
    /\ UNCHANGED learning_vars
    /\ UNCHANGED simulator_vars
    /\ UNCHANGED requests

\* the utterances handed to detect_simulator_intent: those of the simulator
\* turns, a blank one, and one that matches only rules of no stage
SimulatorIntentInputs == SimUtterances \cup {"   ", "what time is breakfast", "hmm"}

\* one call detect_simulator_intent(text, stage, slots); the slots are not read
DetectSimulatorIntentCall(text, stage) ==
    /\ pure_call.fn = NoPureCall.fn
    /\ pure_call' = [fn |-> "detect_simulator_intent", args |-> <<text, stage>>,
                      result |-> detect_simulator_intent(text, stage, FreshSimulatorState.slots)]
    /\ UNCHANGED learning_vars
    /\ UNCHANGED simulator_vars
    /\ UNCHANGED requests

\* the texts handed to finalize_turn: one to MaxLines + 1 lines
FinalizeTexts ==
    {[i \in 1..n |-> "line " \o Chr("123456789", i)] : n \in 1..(MaxLines + 1)}
        \cup {<<"">>, <<"line 1", "", "line 3">>}

\* the questions handed to finalize_turn: bilingual (two lines) and one line
FinalizeQuestions ==
    { format_bilingual(T("Como você está?"), T("I am ___."), None, LanguageMode.BILINGUAL),
      T("How are you?") }

\* the lessons handed to finalize_turn: every setting of the two constraints
FinalizeLessons ==
    { [Lesson_generic EXCEPT !.constraints.max_lines_before_question = m,
                             !.constraints.end_turn_must_ask_question = b] :
        m \in 0..MaxLines, b \in BOOLEAN }

\* one call finalize_turn(text, question, lesson_spec)
FinalizeTurnCall(text, question, lesson) ==
    /\ pure_call.fn = NoPureCall.fn
    /\ pure_call' = [fn |-> "finalize_turn", args |-> <<text, question, lesson>>,
                      result |-> finalize_turn(text, question, lesson)]
    /\ UNCHANGED learning_vars
    /\ UNCHANGED simulator_vars
    /\ UNCHANGED requests

\* the lists of variants handed to pick_variant
VariantLists == { <<"Boa!", "Perfeito!">>, <<"Perfeito!", "Boa!", "Isso!">> }

\* the usage counts recorded under one key: some variants used 1..MaxUses times
UsageCounts == UNION { [S -> 1..MaxUses] : S \in SUBSET {"Boa!", "Perfeito!", "Isso!"} }

\* the session states handed to pick_variant: no key yet, the key "praise" with
\* its counts, or another key with its counts
PickSessions ==
    { [FreshSessionState EXCEPT !.safety.repeated_bot_phrase_counter = counter] :
        counter \in {EmptyDict} \cup { k :> c : k \in {"praise", "choose_question"}, c \in UsageCounts } }

\* one call pick_variant(key, variants, session_state)
PickVariantCall(key, variants, st) ==
    /\ pure_call.fn = NoPureCall.fn
    /\ pure_call' = [fn |-> "pick_variant", args |-> <<key, variants, st>>,
                      result |-> pick_variant(key, variants, st)]
    /\ UNCHANGED learning_vars
    /\ UNCHANGED simulator_vars
    /\ UNCHANGED requests

NextFunctions ==
    \/ \E x \in ValidatorInputs : ValidateCall(x)
    \/ \E text \in FinalizeTexts, question \in FinalizeQuestions, lesson \in FinalizeLessons :
          FinalizeTurnCall(text, question, lesson)
    \/ \E text \in SimulatorIntentInputs, stage \in Members(SimulatorStage) :
          DetectSimulatorIntentCall(text, stage)
    \/ \E intent \in PolicyIntents, st \in PolicySessions : ChoosePolicyCall(intent, st)
    \/ \E text \in DetectIntentInputs : DetectIntentCall(text)
    \/ \E variants \in VariantLists, st \in PickSessions : PickVariantCall("praise", variants, st)

\* one direct call of a pure function with any of its inputs: the functions
\* keep no state, so a behaviour holds one call
SpecFunctions == InitSim /\ [][NextFunctions]_vars

----------------------------------------------------------------------------
(* Two calls of on_student_message on the same SessionState.  Nothing in    *)
(* conversation_orchestrator.py or get_or_create_session_state locks the   *)
(* session, so the calls interleave between the read of is_first_message    *)
(* (line 892), its reset (line 881) and the write of phase (line 882).  The *)
(* rest of a turn, from line 895 on, is taken as one step.                  *)

\* the utterances of the two calls
ConcurrentUtterances == {"Thanks so much!", "I happy", "em português", "football"}

\* caller p calls on_student_message(text, lesson_spec, session_state); `after`
\* records that the other call had returned by then
Invoke(p, text) ==
    /\ requests[p].pc = "idle"
    /\ requests' = [requests EXCEPT ![p].pc = "line_892", ![p].text = text,
                                    ![p].after = (requests[Other(p)].pc = "returned")]
    /\ UNCHANGED learning_vars
    /\ UNCHANGED simulator_vars
    /\ UNCHANGED pure_call

\* line 892: if session_state.is_first_message
CheckFirstMessage(p) ==
    /\ requests[p].pc = "line_892"
    /\ requests' = [requests EXCEPT ![p].pc = IF session_state.is_first_message
                                                 THEN "line_881" ELSE "line_895"]
    /\ UNCHANGED learning_vars
    /\ UNCHANGED simulator_vars
    /\ UNCHANGED pure_call

\* generate_intro_message up to line 881: full_intro is built, is_first_message reset
ResetFirstMessage(p) ==
    /\ requests[p].pc = "line_881"
    /\ LET r == generate_intro_message(lesson_spec, session_state) IN
       /\ session_state' = [session_state EXCEPT !.is_first_message = r.state.is_first_message]
       /\ requests' = [requests EXCEPT ![p].pc = "line_882", ![p].full_intro = r.text]
    /\ UNCHANGED <<lesson_spec, student_text, response, last_call>>
    /\ UNCHANGED simulator_vars
    /\ UNCHANGED pure_call

\* generate_intro_message lines 882-884: phase set, full_intro returned
ReturnIntro(p) ==
    /\ requests[p].pc = "line_882"
    /\ LET r == generate_intro_message(lesson_spec, session_state) IN
       /\ session_state' = [session_state EXCEPT !.phase = r.state.phase]
       /\ requests' = [requests EXCEPT ![p].pc = "returned", ![p].handler = r.handler,
                                       ![p].response = requests[p].full_intro]
    /\ UNCHANGED <<lesson_spec, student_text, response, last_call>>
    /\ UNCHANGED simulator_vars
    /\ UNCHANGED pure_call

\* lines 895-929: the turn of a call that found is_first_message false
RestOfTurn(p) ==
    /\ requests[p].pc = "line_895"
    /\ LET r == on_student_message(requests[p].text, lesson_spec, session_state) IN
       /\ session_state' = r.state
       /\ requests' = [requests EXCEPT ![p].pc = "returned", ![p].handler = r.handler,
                                       ![p].response = r.text]
    /\ UNCHANGED <<lesson_spec, student_text, response, last_call>>
    /\ UNCHANGED simulator_vars
    /\ UNCHANGED pure_call

NextConcurrent ==
    \E p \in Callers :
        \/ \E text \in ConcurrentUtterances : Invoke(p, text)
        \/ CheckFirstMessage(p)
        \/ ResetFirstMessage(p)
        \/ ReturnIntro(p)
        \/ RestOfTurn(p)

\* two calls on one session, interleaved in every way
SpecConcurrent == Init /\ [][NextConcurrent]_vars

----------------------------------------------------------------------------
(* Properties of the learning orchestrator, checked under SpecLearning     *)

\* the intent detect_intent gives the utterance of the turn being taken
TurnIntent == IntentOf[student_text']

\* the session as on_student_message leaves it once the intent is recorded
TurnState == [session_state EXCEPT !.last_student_intent = TurnIntent]

\* the turn being taken is the forced redirect of an off-topic utterance
ForcedRedirectTurn ==
    /\ ~session_state.is_first_message
    /\ session_state.is_learning_mode
    /\ TurnIntent = Intent.OFF_TOPIC

\* the name of the handler the policy table selects for an intent
PolicyHandlerOf(intent) ==
    IF intent \in {Intent.ASK_BOT_OPINION, Intent.META_UNDERSTANDING, Intent.ASK_GRAMMAR_HELP}
        THEN "handle_question"
    ELSE IF intent = Intent.CONFUSION_OR_FRUSTRATION THEN "handle_frustration"
    ELSE IF intent = Intent.REQUEST_LANGUAGE_MODE THEN "handle_set_language_mode"
    ELSE IF intent = Intent.GREETING_OR_THANKS THEN "handle_thanks_or_greeting"
    ELSE IF intent = Intent.STUDENT_ANSWER THEN "handle_student_answer"
    ELSE IF intent = Intent.REQUEST_STOP_OR_CHANGE THEN "handle_stop_or_change"
    ELSE "handle_off_topic"

\* C1: every call of on_student_message is served by the first applicable
\* branch in the order first message, forced off-topic redirect, loop guard,
\* policy handler: what the call returns and the session it leaves are those of
\* that branch alone (the introduction records no intent and resets no counter,
\* the forced redirect runs no recovery, the recovery runs no policy handler).
C1_FirstApplicableBranch ==
    [][ IF session_state.is_first_message THEN
            /\ last_call'.handler = "generate_intro_message"
            /\ response' = generate_intro_message(lesson_spec, session_state).text
            /\ session_state' = [session_state EXCEPT !.is_first_message = FALSE,
                                                      !.phase = Phase.PRACTICE]
        ELSE IF session_state.is_learning_mode /\ TurnIntent = Intent.OFF_TOPIC THEN
            /\ last_call'.handler = "handle_off_topic"
            /\ response' = handle_off_topic(lesson_spec, TurnState).text
            /\ session_state' = TurnState
        ELSE IF \/ session_state.safety.loop_counter >= 2
                \/ choose_question_count(session_state) >= 1 THEN
            /\ last_call'.handler = "recover_from_loop"
            /\ response' = recover_from_loop(lesson_spec, TurnState).text
            /\ session_state' = [TurnState EXCEPT !.safety.loop_counter = 0]
        ELSE
            /\ last_call'.handler = PolicyHandlerOf(TurnIntent)
            /\ session_state'.safety.loop_counter = session_state.safety.loop_counter
            /\ session_state'.is_first_message = FALSE
      ]_vars

\* C1 witness: an off-topic utterance arrived while the loop counter was at 2
\* and the forced redirect, the earlier branch, served it.
C1_Witness ==
    /\ last_call.branch = "forced_redirect"
    /\ session_state.safety.loop_counter >= 2
    /\ response = handle_off_topic(lesson_spec, session_state).text

\* a text with a line that contains the string p
TextContains(text, p) == \E i \in 1..Len(text) : Contains(text[i], p)

\* C2: the first call on a fresh session returns the introduction, which names
\* the lesson title, and leaves is_first_message = False and phase = PRACTICE;
\* every later call leaves is_first_message False and returns something that
\* is not the introduction.
C2_IntroductionOnce ==
    [][ IF session_state.is_first_message THEN
            /\ response' = generate_intro_message(lesson_spec, session_state).text
            /\ TextContains(response', lesson_spec.title_pt)
            /\ ~session_state'.is_first_message
            /\ session_state'.phase = Phase.PRACTICE
        ELSE
            /\ ~session_state'.is_first_message
            /\ last_call'.handler # "generate_intro_message"
            /\ response' # generate_intro_message(lesson_spec, session_state).text
      ]_vars

\* C2 witness: a turn after the first one has been served by a policy handler.
C2_Witness ==
    /\ last_call.branch = "policy"
    /\ last_call.raised = None
    /\ ~session_state.is_first_message
    /\ session_state.phase = Phase.PRACTICE

\* the text ends with the lines of the question q
EndsWithQuestion(text, q) ==
    /\ Len(q) <= Len(text)
    /\ SubSeq(text, Len(text) - Len(q) + 1, Len(text)) = q

\* C3 (as stated): with end_turn_must_ask_question = True, every text returned
\* after the first turn was produced by finalize_turn and ends with the question
\* handed to finalize_turn.
C3_EveryTurnEndsWithQuestion ==
    ( /\ last_call.branch \notin {"none", "first_message"}
      /\ last_call.raised = None
      /\ lesson_spec.constraints.end_turn_must_ask_question )
    => ( /\ last_call.via_finalize
         /\ EndsWithQuestion(response, last_call.question) )

\* C4: on a turn after the first, in learning mode, an utterance classified
\* OFF_TOPIC is answered with exactly the text of handle_off_topic, whatever the
\* loop counter: no recovery runs and loop_counter keeps its value.
C4_OffTopicForcedRedirect ==
    [][ ForcedRedirectTurn =>
            /\ response' = handle_off_topic(lesson_spec, TurnState).text
            /\ last_call'.handler = "handle_off_topic"
            /\ last_call'.raised = None
            /\ session_state'.safety.loop_counter = session_state.safety.loop_counter
      ]_vars

\* C4 witness: the forced redirect has answered while the loop counter stands at 2.
C4_Witness ==
    /\ last_call.handler = "handle_off_topic"
    /\ last_call.branch = "forced_redirect"
    /\ session_state.is_learning_mode
    /\ session_state.last_student_intent = Intent.OFF_TOPIC
    /\ session_state.safety.loop_counter = 2

\* C5 (as stated): from every session with loop_counter >= 2, for every
\* utterance, the call resets loop_counter to 0 and returns the recovery text.
C5_AlwaysRecovers ==
    [][ session_state.safety.loop_counter >= 2 =>
            /\ session_state'.safety.loop_counter = 0
            /\ response' = recover_from_loop(lesson_spec, TurnState).text
      ]_vars

\* C5 (amended): from a session with loop_counter >= 2, a call that is neither
\* the first turn nor the forced redirect of an off-topic utterance resets
\* loop_counter to 0 and returns the recovery text; the first turn and the forced
\* redirect leave loop_counter as it was; and the call that follows a recovery
\* is not a recovery.
C5_RecoversUnlessPreempted ==
    [][ /\ ( /\ session_state.safety.loop_counter >= 2
             /\ ~session_state.is_first_message
             /\ ~ForcedRedirectTurn )
           => ( /\ session_state'.safety.loop_counter = 0
                /\ last_call'.handler = "recover_from_loop"
                /\ response' = recover_from_loop(lesson_spec, TurnState).text )
        /\ ( /\ session_state.safety.loop_counter >= 2
             /\ (session_state.is_first_message \/ ForcedRedirectTurn) )
           => ( /\ session_state'.safety.loop_counter = session_state.safety.loop_counter
                /\ last_call'.handler # "recover_from_loop" )
        /\ last_call.handler = "recover_from_loop"
           => ( /\ last_call'.handler # "recover_from_loop"
                /\ response' # recover_from_loop(lesson_spec, TurnState).text )
      ]_vars

\* C5 witness: a recovery has just run and has left the counter at 0.
C5_Witness ==
    /\ last_call.handler = "recover_from_loop"
    /\ last_call.branch = "loop_guard"
    /\ session_state.safety.loop_counter = 0
    /\ response = recover_from_loop(lesson_spec, session_state).text

\* C6 (as stated): on a turn after the first, an utterance whose intent is
\* META_UNDERSTANDING, ASK_BOT_OPINION or ASK_GRAMMAR_HELP is answered by
\* handle_question in that same turn, loop risk or not.
C6_QuestionNeverDeferred ==
    [][ ( /\ ~session_state.is_first_message
          /\ TurnIntent \in {Intent.META_UNDERSTANDING, Intent.ASK_BOT_OPINION,
                             Intent.ASK_GRAMMAR_HELP} )
        => ( /\ last_call'.handler = "handle_question"
             /\ response' = handle_question(TurnIntent, student_text', lesson_spec, TurnState).text )
      ]_vars

\* C15 (as stated): every call of on_student_message returns a text; no error
\* reaches the caller.
C15_NoErrorReachesCaller ==
    last_call.branch # "none" => (last_call.raised = None /\ response # None)

\* the micro goal handle_question resumes in the current state
ResumedGoal == current_or_first_goal(lesson_spec, session_state)

\* the text shows the sentence `example` on a line after its first line, and
\* the practice prompt (its Portuguese text or its English hint) on a later line
ShowsExampleThenPrompt(text, example, prompt) ==
    \E i \in 2..Len(text) : \E j \in (i + 1)..Len(text) :
        /\ Contains(text[i], example)
        /\ \/ Contains(text[j], Get(prompt, "pt", "Agora tente"))
           \/ Contains(text[j], Get(prompt, "target_en_hint", "I am ___."))

\* C22 (as stated): with max_lines_before_question = 4, in every language mode,
\* the text handle_question returns for a micro goal that has an example and a
\* practice prompt shows, after the answer, the goal's first example sentence
\* and then its first practice prompt.
C22_AnswerThenResume ==
    ( /\ last_call.handler = "handle_question"
      /\ lesson_spec.constraints.max_lines_before_question = 4
      /\ HasExamples(ResumedGoal)
      /\ HasPrompts(ResumedGoal) ) =>
        ShowsExampleThenPrompt(response,
                               Get(Val(ResumedGoal).examples[1], "en", ""),
                               Val(ResumedGoal).practice_prompts[1])

\* the turn from the current state to the next one is dispatched to
\* handle_set_language_mode: a language request, past the first turn, no loop risk
LanguageTurn ==
    /\ ~session_state.is_first_message
    /\ IntentOf[student_text'] = Intent.REQUEST_LANGUAGE_MODE
    /\ ~is_loop_risk(session_state, Intent.REQUEST_LANGUAGE_MODE)

\* C23: a turn is served by handle_set_language_mode exactly when it is a
\* language request past the first turn without loop risk, and then
\* student_pref.language_mode becomes the mode the utterance asks for; every
\* other turn leaves language_mode as it was, and no turn changes step_index or
\* topic_name.
C23_LanguageModeFrame ==
    [][ /\ (last_call'.handler = "handle_set_language_mode") <=> LanguageTurn
        /\ IF LanguageTurn
              THEN session_state'.student_pref.language_mode
                      = requested_language_mode(normalize_text(student_text'))
              ELSE session_state'.student_pref.language_mode
                      = session_state.student_pref.language_mode
        /\ session_state'.step_index = session_state.step_index
        /\ session_state'.topic_name = session_state.topic_name
      ]_vars

\* C23 witness: Portuguese was chosen in an earlier turn and is still the mode
\* after a turn served by another handler.
C23_Witness ==
    /\ session_state.student_pref.language_mode = LanguageMode.PT
    /\ last_call.handler \notin {"none", "handle_set_language_mode"}

\* C31: no turn raises safety['loop_counter'] or writes the phrase counters, in
\* particular the key 'choose_question'; so from a session whose loop_counter
\* is 0 every turn leaves it 0, leaves is_loop_risk false and is not served by
\* recover_from_loop.
C31_LoopCounterNeverRaised ==
    [][ /\ session_state'.safety.loop_counter <= session_state.safety.loop_counter
        /\ session_state'.safety.repeated_bot_phrase_counter
              = session_state.safety.repeated_bot_phrase_counter
        /\ choose_question_count(session_state') = 0
        /\ session_state.safety.loop_counter = 0 =>
              /\ session_state'.safety.loop_counter = 0
              /\ ~is_loop_risk(session_state', session_state'.last_student_intent)
              /\ last_call'.handler # "recover_from_loop"
              /\ last_call'.branch # "loop_guard"
      ]_vars

\* C31 witness: a session with loop_counter 0 is past the introduction, its
\* last turn went to the handler that calls pick_variant, and no phrase counter
\* was written.
C31_Witness ==
    /\ session_state.safety.loop_counter = 0
    /\ ~session_state.is_first_message
    /\ last_call.handler = "handle_thanks_or_greeting"
    /\ session_state.safety.repeated_bot_phrase_counter = EmptyDict

\* C32: no turn changes step_index or the micro goal the handlers resume; the
\* phase is INTRO exactly until the first turn and PRACTICE after every turn.
C32_LessonNeverAdvances ==
    [][ /\ session_state'.step_index = session_state.step_index
        /\ current_or_first_goal(lesson_spec', session_state')
              = current_or_first_goal(lesson_spec, session_state)
        /\ current_or_last_goal(lesson_spec', session_state')
              = current_or_last_goal(lesson_spec, session_state)
        /\ session_state.phase
              = (IF session_state.is_first_message THEN Phase.INTRO ELSE Phase.PRACTICE)
        /\ session_state'.phase = Phase.PRACTICE
        /\ session_state'.phase \notin {Phase.TEACH, Phase.FEEDBACK, Phase.REVIEW}
      ]_vars

\* C32 witness: a correct answer was evaluated in a session that started at
\* step_index 1; the session is still at step 1, in phase PRACTICE.
C32_Witness ==
    /\ last_call.handler = "handle_student_answer"
    /\ student_text = "I am happy today and excited for class"
    /\ session_state.step_index = 1
    /\ session_state.phase = Phase.PRACTICE
    /\ Len(lesson_spec.micro_goals) >= 2

\* the variants handle_thanks_or_greeting hands to pick_variant under the key 'ack'
AckVariants == <<"De nada :)", "Imagina! :)", "Sempre! :)">>

\* the usage count the session records for the i-th 'ack' variant
AckUses(st, i) ==
    CountOf(Get(st.safety.repeated_bot_phrase_counter, "ack", EmptyDict), AckVariants[i])

\* C39 (as stated), for the calls pick_variant("ack", AckVariants, session_state)
\* that the successive thanks turns of a session make: the k-th call returns
\* the variant at list position (k - 1) mod 3 and counts it, so the counts of
\* the variants differ by at most 1 and no variant is returned twice running.
C39_VariantsRotate ==
    [][ last_call'.handler = "handle_thanks_or_greeting" =>
          LET calls == AckUses(session_state, 1) + AckUses(session_state, 2)
                          + AckUses(session_state, 3)
              chosen == (calls % 3) + 1
          IN /\ last_call'.raised = None
             /\ \A i \in 1..3 :
                   AckUses(session_state', i)
                      = AckUses(session_state, i) + (IF i = chosen THEN 1 ELSE 0)
             /\ \A i, j \in 1..3 :
                   AckUses(session_state', i) - AckUses(session_state', j) \in {-1, 0, 1}
             /\ \E l \in 1..Len(response') : Contains(response'[l], AckVariants[chosen])
      ]_vars

----------------------------------------------------------------------------
(* Properties of the simulator, checked under SpecSimulator                *)

\* C7: no simulator turn lowers the stage.
C7_StageNeverDecreases == [][sim_state'.stage >= sim_state.stage]_vars

\* C7 witness: the conversation has climbed from stage 1 to the last stage.
C7_Witness ==
    /\ sim_state.stage = SimulatorStage.OPTIONAL_ISSUES
    /\ sim_call.stage_before = SimulatorStage.INFO_AND_CLOSING

\* C8: a turn that starts in RESERVATION_DETAILS ends in ID_AND_PAYMENT if and
\* only if name and reservation are both non-null once the turn's handler has
\* run, and otherwise ends in RESERVATION_DETAILS.
C8_ReservationGate ==
    [][ sim_state.stage = SimulatorStage.RESERVATION_DETAILS =>
            /\ sim_state'.stage = SimulatorStage.ID_AND_PAYMENT
                  <=> ( /\ sim_state'.slots.name # None
                        /\ sim_state'.slots.reservation # None )
            /\ sim_state'.stage \in {SimulatorStage.RESERVATION_DETAILS,
                                     SimulatorStage.ID_AND_PAYMENT}
      ]_vars

\* C8 witness: a turn that started in stage 2 filled the second of the two
\* slots and ended in stage 3.
C8_Witness ==
    /\ sim_call.stage_before = SimulatorStage.RESERVATION_DETAILS
    /\ sim_call.handlers = <<"handle_stage_reservation">>
    /\ sim_state.stage = SimulatorStage.ID_AND_PAYMENT
    /\ sim_state.slots.name # None
    /\ sim_state.slots.reservation # None

\* the response asks the guest for the ID
AsksForID(resp) == Contains(resp, "ID")

\* the response asks the guest how to pay
AsksForPayment(resp) == Contains(resp, "pay")

\* C9 (as stated): after a turn that started in ID_AND_PAYMENT, the stage is
\* ROOM_PREFERENCES only if id_confirmed is true and payment_method is non-null;
\* and when the stage-3 handler served the turn and exactly one of the two is
\* still unset, the stage is still 3 and the response asks for the missing one
\* and only for it.
C9_AsksForTheMissingSlot ==
    sim_call.stage_before = SimulatorStage.ID_AND_PAYMENT =>
        /\ sim_state.stage = SimulatorStage.ROOM_PREFERENCES
              => ( sim_state.slots.id_confirmed /\ sim_state.slots.payment_method # None )
        /\ ( /\ sim_call.handlers = <<"handle_stage_id_payment">>
             /\ sim_state.slots.id_confirmed = (sim_state.slots.payment_method = None) )
           => ( /\ sim_state.stage = SimulatorStage.ID_AND_PAYMENT
                /\ AsksForID(sim_response) = ~sim_state.slots.id_confirmed
                /\ AsksForPayment(sim_response) = (sim_state.slots.payment_method = None) )

\* C10: a slot that is filled stays filled: name, reservation, payment_method,
\* preferences.view and preferences.bed never go back to None, and id_confirmed
\* never goes back to False.
C10_SlotsNeverReset ==
    [][ /\ sim_state.slots.name # None => sim_state'.slots.name # None
        /\ sim_state.slots.reservation # None => sim_state'.slots.reservation # None
        /\ sim_state.slots.payment_method # None => sim_state'.slots.payment_method # None
        /\ sim_state.slots.preferences.view # None => sim_state'.slots.preferences.view # None
        /\ sim_state.slots.preferences.bed # None => sim_state'.slots.preferences.bed # None
        /\ sim_state.slots.id_confirmed => sim_state'.slots.id_confirmed
      ]_vars

\* C10 witness: with name, reservation, ID, payment and a room preference all
\* filled, further turns have been taken up to the last stage.
C10_Witness ==
    /\ sim_state.slots.name # None
    /\ sim_state.slots.reservation # None
    /\ sim_state.slots.id_confirmed
    /\ sim_state.slots.payment_method # None
    /\ sim_state.slots.preferences.view # None \/ sim_state.slots.preferences.bed # None
    /\ sim_call.stage_before = SimulatorStage.OPTIONAL_ISSUES
    /\ sim_call.handlers = <<"handle_thanks">>

MatchesSimulatorRule(intent, t) ==
    IF intent = SimulatorIntent.RUDE_UNSAFE THEN
        ContainsAny(t, {"kill", "die", "hate", "stupid", "idiot", "shut up"})
    ELSE IF intent = SimulatorIntent.ASK_FOR_TEACHING THEN
        ContainsAny(t, {"teach", "ensina", "explain", "explica", "how do i say", "como falo"})
    ELSE IF intent = SimulatorIntent.GREETING THEN
        ContainsAny(t, {"hello", "hi", "hey", "good morning", "good evening", "good afternoon"})
    ELSE IF intent = SimulatorIntent.THANKS THEN
        ContainsAny(t, {"thank", "thanks", "obrigado", "obrigada"})
    ELSE IF intent = SimulatorIntent.CONFUSION THEN
        ContainsAny(t, {"what", "huh", "sorry", "repeat", "again", "não entendi"})
    ELSE FALSE

\* the stage-independent rules in the order of their priority
SimulatorPriority ==
    << SimulatorIntent.RUDE_UNSAFE, SimulatorIntent.ASK_FOR_TEACHING, SimulatorIntent.GREETING,
       SimulatorIntent.THANKS, SimulatorIntent.CONFUSION >>

\* C18: in every stage a non-empty utterance with a hostile token is classified
\* RUDE_UNSAFE whatever else it contains; otherwise the earliest matching rule
\* among ASK_FOR_TEACHING, GREETING, THANKS, CONFUSION decides, and only when
\* none matches is the intent one of the remaining ones; a RUDE_UNSAFE turn is
\* answered by handle_rude_unsafe alone.
C18_SafetyFirst ==
    (sim_call.intent # "" /\ sim_text # "") =>
        LET t == normalize_text(sim_text)
            matching == {i \in 1..Len(SimulatorPriority) : MatchesSimulatorRule(SimulatorPriority[i], t)}
        IN /\ IF matching = {}
                 THEN \A i \in 1..Len(SimulatorPriority) : sim_call.intent # SimulatorPriority[i]
                 ELSE \E i \in matching :
                         /\ \A j \in matching : i <= j
                         /\ sim_call.intent = SimulatorPriority[i]
           /\ sim_call.intent = SimulatorIntent.RUDE_UNSAFE
                 => sim_call.handlers = <<"handle_rude_unsafe">>

\* C18 witness: in stage ID_AND_PAYMENT an utterance that asks for teaching and
\* insults was classified RUDE_UNSAFE and answered by the de-escalation handler.
C18_Witness ==
    /\ sim_text = "teach me, you idiot"
    /\ sim_call.stage_before = SimulatorStage.ID_AND_PAYMENT
    /\ sim_call.intent = SimulatorIntent.RUDE_UNSAFE
    /\ sim_call.handlers = <<"handle_rude_unsafe">>
    /\ sim_state.stage = SimulatorStage.ID_AND_PAYMENT

\* the first three turns of scenario D: "Good evening" on a fresh state keeps
\* stage GREETING, then "My name is Wesley" gives stage RESERVATION_DETAILS with
\* the name filled, then "Yes, I have a reservation" gives stage ID_AND_PAYMENT
\* with name and reservation filled and a response that asks for the ID
ScenarioD_ThreeTurns ==
    /\ ( /\ sim_state = FreshSimulatorState
         /\ sim_text' = "Good evening" )
       => sim_state'.stage = SimulatorStage.GREETING
    /\ ( /\ sim_text = "Good evening"
         /\ sim_state.stage = SimulatorStage.GREETING
         /\ sim_state.slots = FreshSimulatorState.slots
         /\ sim_text' = "My name is Wesley" )
       => ( /\ sim_state'.stage = SimulatorStage.RESERVATION_DETAILS
            /\ sim_state'.slots.name = Some("Wesley") )
    /\ ( /\ sim_text = "My name is Wesley"
         /\ sim_state.stage = SimulatorStage.RESERVATION_DETAILS
         /\ sim_state.slots.name = Some("Wesley")
         /\ sim_state.slots.reservation = None
         /\ sim_text' = "Yes, I have a reservation" )
       => ( /\ sim_state'.stage = SimulatorStage.ID_AND_PAYMENT
            /\ sim_state'.slots.name # None
            /\ sim_state'.slots.reservation # None
            /\ AsksForID(sim_response') )

\* C14 (as stated): scenario D goes as ScenarioD_ThreeTurns says, and a turn that
\* follows it, is served by the stage-3 handler and leaves id_confirmed false
\* asks for the ID.
C14_ScenarioD ==
    [][ /\ ScenarioD_ThreeTurns
        /\ ( /\ sim_text = "Yes, I have a reservation"
             /\ sim_state.stage = SimulatorStage.ID_AND_PAYMENT
             /\ ~sim_state.slots.id_confirmed
             /\ sim_call'.handlers = <<"handle_stage_id_payment">>
             /\ ~sim_state'.slots.id_confirmed )
           => AsksForID(sim_response')
      ]_vars

\* a simulator turn has been served
SimTurnServed == sim_call.intent # ""

\* the intents on_simulator_message answers before any stage dispatch
CrossCuttingIntents ==
    { SimulatorIntent.ASK_FOR_TEACHING, SimulatorIntent.RUDE_UNSAFE, SimulatorIntent.THANKS,
      SimulatorIntent.CONFUSION, SimulatorIntent.OFF_TOPIC }

\* the response of the stage-5 branch to a turn that is no special request
LoopingResponse == "Is there anything else I can help you with?"

\* C21 (as stated): a turn that starts in INFO_AND_CLOSING ends in
\* OPTIONAL_ISSUES exactly when it is classified REQUEST_SPECIAL, and otherwise
\* ends in INFO_AND_CLOSING with the looping "anything else" response; a turn
\* that starts in OPTIONAL_ISSUES ends in OPTIONAL_ISSUES.
C21_ClosingLoopsUntilSpecial ==
    SimTurnServed =>
        /\ sim_call.stage_before = SimulatorStage.INFO_AND_CLOSING =>
              IF sim_call.intent = SimulatorIntent.REQUEST_SPECIAL
                 THEN sim_state.stage = SimulatorStage.OPTIONAL_ISSUES
                 ELSE /\ sim_state.stage = SimulatorStage.INFO_AND_CLOSING
                      /\ Contains(lower(sim_response), "anything else")
        /\ sim_call.stage_before = SimulatorStage.OPTIONAL_ISSUES =>
              sim_state.stage = SimulatorStage.OPTIONAL_ISSUES

\* C21 (amended): as C21, but the looping response is given only to the turns
\* that reach the stage dispatch; a turn classified ASK_FOR_TEACHING,
\* RUDE_UNSAFE, THANKS, CONFUSION or OFF_TOPIC keeps the stage and is answered
\* by its cross-cutting handler.
C21_ClosingLoopsUnlessIntercepted ==
    SimTurnServed =>
        /\ sim_call.stage_before = SimulatorStage.INFO_AND_CLOSING =>
              IF sim_call.intent = SimulatorIntent.REQUEST_SPECIAL
                 THEN sim_state.stage = SimulatorStage.OPTIONAL_ISSUES
                 ELSE /\ sim_state.stage = SimulatorStage.INFO_AND_CLOSING
                      /\ sim_call.intent \notin CrossCuttingIntents =>
                            /\ sim_response = LoopingResponse
                            /\ sim_call.handlers = << >>
        /\ sim_call.stage_before = SimulatorStage.OPTIONAL_ISSUES =>
              sim_state.stage = SimulatorStage.OPTIONAL_ISSUES

\* C21 witness: a turn in stage 5 that is neither a special request nor
\* intercepted got the looping response and stayed in stage 5.
C21_Witness ==
    /\ sim_call.stage_before = SimulatorStage.INFO_AND_CLOSING
    /\ sim_call.intent = SimulatorIntent.ASK_CHECKOUT_TIME
    /\ sim_response = LoopingResponse
    /\ sim_state.stage = SimulatorStage.INFO_AND_CLOSING

\* the cross-cutting handler of an intent answered before the stage dispatch
CrossCuttingHandler(intent) ==
    IF intent = SimulatorIntent.ASK_FOR_TEACHING THEN "handle_teaching_request"
    ELSE IF intent = SimulatorIntent.RUDE_UNSAFE THEN "handle_rude_unsafe"
    ELSE IF intent = SimulatorIntent.THANKS THEN "handle_thanks"
    ELSE IF intent = SimulatorIntent.CONFUSION THEN "handle_confusion"
    ELSE "handle_off_topic"

\* C25: a turn classified ASK_FOR_TEACHING, RUDE_UNSAFE, THANKS, CONFUSION or
\* OFF_TOPIC is served by its cross-cutting handler and by no stage handler,
\* and changes nothing of the simulator state but last_user_intent and the
\* flags user_requested_teaching and user_confused: stage and slots stay.
C25_CrossCuttingFrame ==
    [][ sim_call'.intent \in CrossCuttingIntents =>
            /\ sim_call'.handlers = <<CrossCuttingHandler(sim_call'.intent)>>
            /\ sim_state'.stage = sim_state.stage
            /\ sim_state'.slots = sim_state.slots
            /\ sim_state' =
                  [sim_state EXCEPT
                      !.last_user_intent = sim_call'.intent,
                      !.flags.user_requested_teaching = sim_state'.flags.user_requested_teaching,
                      !.flags.user_confused = sim_state'.flags.user_confused]
      ]_vars

\* C25 witness: a confused turn in stage 3, with the name already stored, was
\* served by handle_confusion alone.
C25_Witness ==
    /\ sim_call.intent = SimulatorIntent.CONFUSION
    /\ sim_call.stage_before = SimulatorStage.ID_AND_PAYMENT
    /\ sim_call.handlers = <<"handle_confusion">>
    /\ sim_state.stage = SimulatorStage.ID_AND_PAYMENT
    /\ sim_state.slots.name # None
    /\ sim_state.flags.user_confused

\* the response asks the question pending in the state: the slot the handler
\* of the state's stage would ask for next
AsksPendingQuestion(resp, state) ==
    IF state.stage = SimulatorStage.GREETING THEN Contains(resp, "checking in")
    ELSE IF state.stage = SimulatorStage.RESERVATION_DETAILS THEN
        (IF ~Filled(state.slots.name) THEN Contains(resp, "name")
         ELSE Contains(resp, "reservation"))
    ELSE IF state.stage = SimulatorStage.ID_AND_PAYMENT THEN
        (IF ~state.slots.id_confirmed THEN AsksForID(resp) ELSE AsksForPayment(resp))
    ELSE IF state.stage = SimulatorStage.ROOM_PREFERENCES THEN
        (IF ~Filled(state.slots.preferences.view) THEN Contains(resp, "view")
         ELSE Contains(resp, "bed"))
    ELSE Contains(resp, "anything else")

\* C26 (as stated): in every stage and with any slots, the response to a THANKS
\* turn is an acknowledgment followed by the question pending in that stage.
C26_ThanksAsksPendingQuestion ==
    sim_call.intent = SimulatorIntent.THANKS =>
        /\ StartsAt(sim_response, 1, "You're welcome. ")
        /\ AsksPendingQuestion(sim_response, sim_state)

\* the response asks the top-of-stage question of the stage
AsksTopOfStageQuestion(resp, stage) ==
    IF stage = SimulatorStage.GREETING THEN Contains(resp, "checking in")
    ELSE IF stage = SimulatorStage.RESERVATION_DETAILS
        THEN Contains(resp, "reservation") \/ Contains(resp, "name")
    ELSE IF stage = SimulatorStage.ID_AND_PAYMENT THEN AsksForID(resp) \/ AsksForPayment(resp)
    ELSE IF stage = SimulatorStage.ROOM_PREFERENCES
        THEN Contains(resp, "view") \/ Contains(resp, "bed") \/ Contains(resp, "room")
    ELSE Contains(resp, "anything else")

\* C27 (as stated): in every stage the response to a RUDE_UNSAFE turn is the
\* de-escalation line followed by the top-of-stage question of the current
\* stage, not the question of another stage.
C27_RudeAsksTopOfStage ==
    sim_call.intent = SimulatorIntent.RUDE_UNSAFE =>
        /\ StartsAt(sim_response, 1, "Let's keep it friendly")
        /\ AsksTopOfStageQuestion(sim_response, sim_state.stage)

\* no simulator turn has stored anything in slots.dates
DatesNeverStored == sim_state.slots.dates = None

\* C30 (as stated): a turn in RESERVATION_DETAILS classified PROVIDE_DATES whose
\* utterance holds a duration keyword leaves the marker "extracted" in
\* slots.dates.
C30_DatesMarkerStored ==
    ( /\ sim_call.intent = SimulatorIntent.PROVIDE_DATES
      /\ sim_call.stage_before = SimulatorStage.RESERVATION_DETAILS
      /\ SlotValueOf[sim_text]["dates"] = Some("extracted") ) =>
        sim_state.slots.dates = Some("extracted")

\* the slot a stage handler asks extract_slot_value for, on a turn with this
\* intent that starts in this stage ("" when it asks for none)
ExtractedSlot(intent, stage) ==
    IF stage = SimulatorStage.RESERVATION_DETAILS /\ intent = SimulatorIntent.PROVIDE_NAME THEN "name"
    ELSE IF stage = SimulatorStage.RESERVATION_DETAILS /\ intent = SimulatorIntent.PROVIDE_RESERVATION
        THEN "reservation"
    ELSE IF stage = SimulatorStage.ID_AND_PAYMENT /\ intent = SimulatorIntent.PROVIDE_PAYMENT THEN "payment"
    ELSE IF stage = SimulatorStage.ROOM_PREFERENCES /\ intent = SimulatorIntent.REQUEST_VIEW THEN "view"
    ELSE IF stage = SimulatorStage.ROOM_PREFERENCES /\ intent = SimulatorIntent.ASK_ROOM THEN "bed"
    ELSE ""

\* the stage handler of a turn with this utterance and intent, starting in this
\* stage, calls extract_slot_value and gets None
NullExtraction(text, intent, stage) ==
    /\ ExtractedSlot(intent, stage) # ""
    /\ SlotValueOf[text][ExtractedSlot(intent, stage)] = None

\* the response asks for the slot
AsksForSlot(resp, slot) ==
    IF slot = "payment" THEN AsksForPayment(resp) ELSE Contains(lower(resp), slot)

\* C28: a turn in stage 2, 3 or 4 whose stage handler gets None from
\* extract_slot_value (name or reservation in stage 2, payment in stage 3, view
\* or bed in stage 4) writes no slot, keeps the stage and returns a response
\* that asks again for that slot.
C28_NullExtractionAsksAgain ==
    [][ NullExtraction(sim_text', sim_call'.intent, sim_state.stage) =>
            /\ sim_state'.slots = sim_state.slots
            /\ sim_state'.stage = sim_state.stage
            /\ AsksForSlot(sim_response', ExtractedSlot(sim_call'.intent, sim_state.stage))
      ]_vars

\* C28 witness: in stage 3 a payment turn that names no method was asked again
\* how to pay.
C28_Witness ==
    /\ sim_call.stage_before = SimulatorStage.ID_AND_PAYMENT
    /\ NullExtraction(sim_text, sim_call.intent, sim_call.stage_before)
    /\ sim_call.intent = SimulatorIntent.PROVIDE_PAYMENT
    /\ sim_state.stage = SimulatorStage.ID_AND_PAYMENT
    /\ AsksForPayment(sim_response)

\* the substrings no simulator response may hold: "teach", "ensinar" and the
\* SIMULATOR_TEACHING_PHRASES of the test suite
TeachingLanguage ==
    { "teach", "ensinar",
      "let me explain", "in english we say", "the correct form is",
      "grammar", "lesson", "practice", "let's learn", "good job",
      "well done", "great job", "excellent", "perfect english",
      "you said it correctly", "your english is" }

\* C29 (as stated): no string returned by on_simulator_message holds a "teach"
\* or "ensinar" substring or a teaching phrase, whatever the case of its letters.
C29_NoTeachingLanguage ==
    SimTurnServed => ~ContainsAny(lower(sim_response), TeachingLanguage)

\* C33: between turns the stage and the slots agree.  From ID_AND_PAYMENT on,
\* name and reservation are set; from ROOM_PREFERENCES on, the ID is confirmed
\* and the payment method set; from INFO_AND_CLOSING on, a view or a bed is
\* set; in RESERVATION_DETAILS name or reservation is still unset; in
\* ID_AND_PAYMENT the ID is unconfirmed or the payment method unset.
C33_StageSlotConsistency ==
    LET s == sim_state.slots IN
    /\ sim_state.stage >= SimulatorStage.ID_AND_PAYMENT =>
          (s.name # None /\ s.reservation # None)
    /\ sim_state.stage >= SimulatorStage.ROOM_PREFERENCES =>
          (s.id_confirmed /\ s.payment_method # None)
    /\ sim_state.stage >= SimulatorStage.INFO_AND_CLOSING =>
          (s.preferences.view # None \/ s.preferences.bed # None)
    /\ sim_state.stage = SimulatorStage.RESERVATION_DETAILS =>
          (s.name = None \/ s.reservation = None)
    /\ sim_state.stage = SimulatorStage.ID_AND_PAYMENT =>
          (~s.id_confirmed \/ s.payment_method = None)

\* C33 witness: a guest without a reservation paid before showing the ID, chose
\* a bed and made a special request; the session is in OPTIONAL_ISSUES.
C33_Witness ==
    /\ sim_state.stage = SimulatorStage.OPTIONAL_ISSUES
    /\ sim_state.slots.reservation = Some(FALSE)
    /\ sim_state.slots.payment_method = Some("cash")
    /\ sim_state.slots.preferences.bed = Some("king")
    /\ sim_state.slots.preferences.view = None

\* C34: preferences.view and preferences.bed are never both set.  A turn that
\* writes either of them starts in ROOM_PREFERENCES and ends in
\* INFO_AND_CLOSING, and from INFO_AND_CLOSING on no turn writes the preferences.
C34_OnePreferenceOnly ==
    [][ /\ ~( /\ sim_state'.slots.preferences.view # None
              /\ sim_state'.slots.preferences.bed # None )
        /\ sim_state'.slots.preferences # sim_state.slots.preferences =>
              /\ sim_state.stage = SimulatorStage.ROOM_PREFERENCES
              /\ sim_state'.stage = SimulatorStage.INFO_AND_CLOSING
        /\ sim_state.stage >= SimulatorStage.INFO_AND_CLOSING =>
              sim_state'.slots.preferences = sim_state.slots.preferences
      ]_vars

\* C34 witness: the view was chosen, the desk asked 'King bed or two singles?',
\* the guest answered 'king bed' in INFO_AND_CLOSING and no bed was stored.
C34_Witness ==
    /\ sim_text = "king bed"
    /\ sim_call.stage_before = SimulatorStage.INFO_AND_CLOSING
    /\ sim_state.slots.preferences.view = Some("beach")
    /\ sim_state.slots.preferences.bed = None

\* C35 (as stated): a turn that starts in ID_AND_PAYMENT with an utterance from
\* which extract_slot_value reads a payment method, and which is not answered
\* by a cross-cutting handler, is classified PROVIDE_PAYMENT and leaves
\* payment_method set; with the ID already confirmed, the answers 'credit card'
\* and 'cash' end the turn in ROOM_PREFERENCES.
C35_PaymentAnswerAdvances ==
    [][ ( /\ sim_state.stage = SimulatorStage.ID_AND_PAYMENT
          /\ SlotValueOf[sim_text']["payment"] # None
          /\ sim_call'.intent \notin CrossCuttingIntents ) =>
            /\ sim_call'.intent = SimulatorIntent.PROVIDE_PAYMENT
            /\ sim_state'.slots.payment_method # None
            /\ ( /\ sim_state.slots.id_confirmed
                 /\ sim_text' \in {"credit card", "cash"} ) =>
                    sim_state'.stage = SimulatorStage.ROOM_PREFERENCES
      ]_vars

\* the response asks whether the guest has a reservation
AsksForReservation(resp) == Contains(resp, "o you have a reservation")

\* the response asks for the guest's name
AsksForName(resp) == Contains(resp, "your name, please")

\* C36 (as stated): a turn that starts with slots.reservation set is not
\* answered with the reservation question, and a turn that starts with
\* slots.name set is not answered with the request for the name, whatever the
\* intent and the stage.
C36_NeverAsksFilledSlot ==
    [][ /\ sim_state.slots.reservation # None => ~AsksForReservation(sim_response')
        /\ sim_state.slots.name # None => ~AsksForName(sim_response')
      ]_vars

\* C37: a simulator turn leaves the stage where it was or moves it to the next
\* stage; no turn skips a stage.
C37_OneStagePerTurn ==
    [][ \/ sim_state'.stage = sim_state.stage
        \/ /\ sim_state'.stage = sim_state.stage + 1
           /\ sim_state'.stage <= SimulatorStage.OPTIONAL_ISSUES
      ]_vars

\* C37 witness: a first turn that gives the name went through the stage-1
\* fall-through into the reservation handler and ended in RESERVATION_DETAILS.
C37_Witness ==
    /\ sim_call.stage_before = SimulatorStage.GREETING
    /\ sim_call.intent = SimulatorIntent.PROVIDE_NAME
    /\ sim_state.slots.name # None
    /\ sim_state.stage = SimulatorStage.RESERVATION_DETAILS

\* the turn being taken returns the opening greeting of handle_stage_greeting
OpeningGreetingTurn == sim_call'.handlers = <<"handle_stage_greeting">>

\* the opening greeting is returned exactly on a GREETING turn in stage GREETING
\* with conversation_started still false; that turn sets the flag and stays in
\* GREETING; the flag is never cleared; a GREETING turn in stage GREETING with
\* the flag set ends in RESERVATION_DETAILS with the request for the name
OpeningGreetingOnce ==
    /\ OpeningGreetingTurn <=>
          /\ sim_state.stage = SimulatorStage.GREETING
          /\ sim_call'.intent = SimulatorIntent.GREETING
          /\ ~sim_state.flags.conversation_started
    /\ OpeningGreetingTurn =>
          /\ sim_state'.flags.conversation_started
          /\ sim_state'.stage = SimulatorStage.GREETING
          /\ sim_response' \in { "Good evening! Welcome to Sunset Hotel. Are you checking in?",
                                 "Good morning! Welcome to First National Bank. How can I help you today?",
                                 "Good evening! Welcome to our restaurant. Do you have a reservation?",
                                 "Hello! How can I help you today?" }
    /\ sim_state.flags.conversation_started => sim_state'.flags.conversation_started
    /\ ( /\ sim_state.stage = SimulatorStage.GREETING
         /\ sim_call'.intent = SimulatorIntent.GREETING
         /\ sim_state.flags.conversation_started ) =>
            /\ sim_state'.stage = SimulatorStage.RESERVATION_DETAILS
            /\ AsksForName(sim_response')

\* C38 (as stated): the opening greeting is returned at most once, as
\* OpeningGreetingOnce says, and a session whose first utterance is not a
\* greeting never receives it: the turn that returns it is the session's first.
C38_OpeningGreetingFirstTurnOnly ==
    [][ /\ OpeningGreetingOnce
        /\ OpeningGreetingTurn => sim_call = NoSimCall
      ]_vars

\* C38 (amended): the opening greeting is returned at most once, as
\* OpeningGreetingOnce says, and never to a session that has left stage
\* GREETING; a session whose first utterances were answered by the
\* cross-cutting handlers is still in GREETING and receives it on its first
\* greeting.
C38_OpeningGreetingOnceInStageOne ==
    [][ /\ OpeningGreetingOnce
        /\ sim_state.stage > SimulatorStage.GREETING => ~OpeningGreetingTurn
      ]_vars

\* C38 witness: the session opened with a confused utterance and received the
\* opening greeting on a later turn.
C38_Witness ==
    /\ sim_call.handlers = <<"handle_stage_greeting">>
    /\ sim_state.flags.user_confused
    /\ sim_state.flags.conversation_started
    /\ sim_state.stage = SimulatorStage.GREETING

----------------------------------------------------------------------------
(* Properties of the pure functions, checked under SpecFunctions           *)

\* the last direct call was a call of the function named fn
Called(fn) == pure_call.fn = fn

\* the rules of detect_intent in the order of their priority
IntentPriority ==
    << Intent.REQUEST_LANGUAGE_MODE, Intent.META_UNDERSTANDING, Intent.ASK_BOT_OPINION,
       Intent.CONFUSION_OR_FRUSTRATION, Intent.GREETING_OR_THANKS, Intent.ASK_GRAMMAR_HELP,
       Intent.REQUEST_STOP_OR_CHANGE, Intent.STUDENT_ANSWER >>

\* the utterance matches the rule of the intent: it contains one of the rule's
\* phrases once normalized (and, for the greeting rule, is at most 20 long)
MatchesRule(intent, text) ==
    LET t == normalize_text(text) IN
    IF intent = Intent.REQUEST_LANGUAGE_MODE THEN
        ContainsAny(t, {"português", "portugues", "só inglês", "so ingles", "bilingue", "bilíngue", "bilingual"})
    ELSE IF intent = Intent.META_UNDERSTANDING THEN
        ContainsAny(t, {"você entendeu", "vc entendeu", "entendeu o que eu disse", "did you understand", "understand what i said"})
    ELSE IF intent = Intent.ASK_BOT_OPINION THEN
        ContainsAny(t, {"e você", "and you", "what about you", "how about you", "or you", "your opinion", "qual sua opinião", "what do you think"})
    ELSE IF intent = Intent.CONFUSION_OR_FRUSTRATION THEN
        ContainsAny(t, {"não respondeu", "você não respondeu", "desastre", "errado", "não é isso", "confuso", "didn't answer", "wrong", "confused"})
    ELSE IF intent = Intent.GREETING_OR_THANKS THEN
        /\ Len(text) <= 20
        /\ ContainsAny(t, {"oi", "olá", "hello", "hi", "hey", "obrigado", "obrigada", "thanks",
                           "thank you", "valeu", "de nada", "you're welcome", "no problem",
                           "tchau", "bye", "see you"})
    ELSE IF intent = Intent.ASK_GRAMMAR_HELP THEN
        ContainsAny(t, {"como fala", "como digo", "qual regra", "por que", "when do i use", "grammar", "como usar", "how do i say"})
    ELSE IF intent = Intent.REQUEST_STOP_OR_CHANGE THEN
        ContainsAny(t, {"trocar", "próxima", "mudar tema", "stop", "change topic", "next", "próximo"})
    ELSE IF intent = Intent.STUDENT_ANSWER THEN looks_like_answer_attempt(text)
    ELSE FALSE

\* the positions in IntentPriority of the rules the utterance matches
MatchingRules(text) == {i \in 1..Len(IntentPriority) : MatchesRule(IntentPriority[i], text)}

\* C16: detect_intent returns the intent of the earliest rule, in the priority
\* order, that the utterance matches, and OFF_TOPIC for the empty utterance and
\* for an utterance that matches no rule.
C16_EarliestRuleWins ==
    Called("detect_intent") =>
        LET text == pure_call.args[1]
            matching == MatchingRules(text)
        IN IF text = "" \/ matching = {}
              THEN pure_call.result = Intent.OFF_TOPIC
              ELSE \E i \in matching :
                      /\ \A j \in matching : i <= j
                      /\ pure_call.result = IntentPriority[i]

\* C16 witness: an utterance that matches the greeting rule and a later rule has
\* been classified GREETING_OR_THANKS.
C16_Witness ==
    /\ Called("detect_intent")
    /\ Cardinality(MatchingRules(pure_call.args[1])) >= 2
    /\ pure_call.result = Intent.GREETING_OR_THANKS

\* the action the policy table gives an intent
PolicyActionOf(intent) ==
    IF intent \in {Intent.META_UNDERSTANDING, Intent.ASK_BOT_OPINION, Intent.ASK_GRAMMAR_HELP}
        THEN "ANSWER_STUDENT_QUESTION_THEN_RETURN_TO_LESSON"
    ELSE IF intent = Intent.CONFUSION_OR_FRUSTRATION THEN "DEESCALATE_CLARIFY_AND_REPAIR"
    ELSE IF intent = Intent.REQUEST_LANGUAGE_MODE THEN "SET_LANGUAGE_MODE"
    ELSE IF intent = Intent.GREETING_OR_THANKS THEN "ACK_AND_REDIRECT_TO_PRACTICE"
    ELSE IF intent = Intent.STUDENT_ANSWER THEN "EVALUATE_AND_FEEDBACK"
    ELSE IF intent = Intent.OFF_TOPIC THEN "GENTLE_REDIRECT"
    ELSE IF intent = Intent.REQUEST_STOP_OR_CHANGE THEN "OFFER_OPTIONS"
    ELSE "GENTLE_REDIRECT"

\* C17: choose_policy_action gives every intent the action of the policy table,
\* and a value that is no known intent GENTLE_REDIRECT, whatever the session
\* state it is called with.
C17_PolicyOfIntentAlone ==
    Called("choose_policy_action") => pure_call.result = PolicyActionOf(pure_call.args[1])

\* C17 witness: a student question has been given its action in a session whose
\* loop counter stands at 2.
C17_Witness ==
    /\ Called("choose_policy_action")
    /\ pure_call.args[1] = Intent.ASK_GRAMMAR_HELP
    /\ pure_call.args[2].safety.loop_counter = 2
    /\ pure_call.result = "ANSWER_STUDENT_QUESTION_THEN_RETURN_TO_LESSON"

\* the phrases of the slot rules that are open in a stage
SlotPhrases(stage) ==
    (IF stage \in {SimulatorStage.GREETING, SimulatorStage.RESERVATION_DETAILS}
        THEN {"my name is", "i am", "i'm", "meu nome é", "eu sou"} ELSE {})
    \cup (IF stage = SimulatorStage.RESERVATION_DETAILS
        THEN {"reservation", "reserva", "book", "booked", "i have",
              "check in", "check out", "stay", "night", "day", "date"} ELSE {})
    \cup (IF stage = SimulatorStage.ID_AND_PAYMENT
        THEN {"id", "passport", "document", "here", "passcard", "card",
              "credit", "cash", "pay", "payment", "pagamento"} ELSE {})
    \cup (IF stage = SimulatorStage.ROOM_PREFERENCES
        THEN {"view", "beach", "city", "ocean", "window", "vista",
              "bed", "king", "single", "double", "twin"} ELSE {})

\* the non-empty utterance, normalized to t, matches no rule at all in the stage
MatchesNoSimulatorRule(t, stage) ==
    /\ \A i \in 1..Len(SimulatorPriority) : ~MatchesSimulatorRule(SimulatorPriority[i], t)
    /\ ~ContainsAny(t, SlotPhrases(stage))
    /\ ~( /\ stage \in {SimulatorStage.GREETING, SimulatorStage.RESERVATION_DETAILS}
          /\ has_name_word(t)
          /\ ContainsAny(t, {"is", "é"}) )
    /\ ~ContainsAny(t, {"checkout", "check out", "leave", "time", "hour", "when"})
    /\ ~ContainsAny(t, {"late", "early", "wake up", "breakfast", "wifi", "internet"})

\* C19: detect_simulator_intent returns a slot intent only in the stages that
\* open it, OFF_TOPIC only after stage GREETING and CHECK_IN only in stage
\* GREETING; a non-empty utterance that matches no rule is CHECK_IN in stage
\* GREETING and OFF_TOPIC in every later stage.
C19_SlotIntentsStageGated ==
    Called("detect_simulator_intent") =>
        LET text == pure_call.args[1]
            stage == pure_call.args[2]
            intent == pure_call.result
        IN /\ intent = SimulatorIntent.PROVIDE_NAME
                 => stage \in {SimulatorStage.GREETING, SimulatorStage.RESERVATION_DETAILS}
           /\ intent \in {SimulatorIntent.PROVIDE_RESERVATION, SimulatorIntent.PROVIDE_DATES}
                 => stage = SimulatorStage.RESERVATION_DETAILS
           /\ intent \in {SimulatorIntent.PROVIDE_ID, SimulatorIntent.PROVIDE_PAYMENT}
                 => stage = SimulatorStage.ID_AND_PAYMENT
           /\ intent \in {SimulatorIntent.REQUEST_VIEW, SimulatorIntent.ASK_ROOM}
                 => stage = SimulatorStage.ROOM_PREFERENCES
           /\ intent = SimulatorIntent.OFF_TOPIC => stage # SimulatorStage.GREETING
           /\ intent = SimulatorIntent.CHECK_IN => stage = SimulatorStage.GREETING
           /\ (text # "" /\ MatchesNoSimulatorRule(normalize_text(text), stage))
                 => intent = (IF stage = SimulatorStage.GREETING
                                 THEN SimulatorIntent.CHECK_IN
                                 ELSE SimulatorIntent.OFF_TOPIC)

\* C19 witness: a name given in stage ID_AND_PAYMENT, where the name rule is
\* closed and no other rule matches, was classified OFF_TOPIC.
C19_Witness ==
    /\ Called("detect_simulator_intent")
    /\ pure_call.args = <<"My name is Wesley", SimulatorStage.ID_AND_PAYMENT>>
    /\ MatchesNoSimulatorRule(normalize_text(pure_call.args[1]), pure_call.args[2])
    /\ pure_call.result = SimulatorIntent.OFF_TOPIC

\* the first n lines of a text, joined again: the empty str when n is 0
FirstLines(text, n) == IF n = 0 THEN <<"">> ELSE SubSeq(text, 1, n)

\* C20: finalize_turn keeps the first max_lines_before_question lines of the
\* text, or all of it when it has no more lines than that, and returns this
\* body followed by a line break and the question when
\* end_turn_must_ask_question is true, and the body alone when it is false.
C20_FinalizeTurn ==
    Called("finalize_turn") =>
        LET text == pure_call.args[1]
            question == pure_call.args[2]
            constraints == pure_call.args[3].constraints
            max_lines == constraints.max_lines_before_question
            body == IF Len(text) > max_lines THEN FirstLines(text, max_lines) ELSE text
        IN IF constraints.end_turn_must_ask_question
              THEN /\ pure_call.result = body \o question
                   /\ EndsWithQuestion(pure_call.result, question)
              ELSE pure_call.result = body

\* C20 witness: five lines, at most 4 allowed, a question required: the first
\* four lines and then the question have been returned.
C20_Witness ==
    /\ Called("finalize_turn")
    /\ pure_call.args[1] = <<"line 1", "line 2", "line 3", "line 4", "line 5">>
    /\ pure_call.args[2] = T("How are you?")
    /\ pure_call.args[3].constraints.max_lines_before_question = 4
    /\ pure_call.args[3].constraints.end_turn_must_ask_question
    /\ pure_call.result = <<"line 1", "line 2", "line 3", "line 4", "How are you?">>

\* C12 (as stated): whatever text validate_simulator_response is given, what it
\* returns contains no forbidden phrase in any letter case.
C12_NoForbiddenPhraseLeft ==
    Called("validate_simulator_response") =>
        \A i \in 1..Len(forbidden_phrases) :
            ~Contains(lower(pure_call.result), forbidden_phrases[i])

\* C13 (as stated): validating the result of validate_simulator_response once
\* more changes nothing.
C13_ValidateIdempotent ==
    Called("validate_simulator_response") =>
        validate_simulator_response(pure_call.result) = pure_call.result

\* C24 (as stated): pick_variant returns the first variant of the list with the
\* least usage count under the key (0 for a variant never used), adds one to
\* that variant's count under that key, and leaves every other count as it was.
C24_LeastUsedVariant ==
    Called("pick_variant") =>
        LET key == pure_call.args[1]
            variants == pure_call.args[2]
            counter == pure_call.args[3].safety.repeated_bot_phrase_counter
            counts == IF key \in DOMAIN counter THEN counter[key] ELSE EmptyDict
            r == pure_call.result
            after == r.state.safety.repeated_bot_phrase_counter
        IN /\ r.raised = None
           /\ \E i \in 1..Len(variants) :
                 /\ r.chosen = variants[i]
                 /\ \A j \in 1..Len(variants) : CountOf(counts, variants[i]) <= CountOf(counts, variants[j])
                 /\ \A j \in 1..(i - 1) : CountOf(counts, variants[j]) > CountOf(counts, variants[i])
           /\ DOMAIN after = DOMAIN counter \cup {key}
           /\ DOMAIN after[key] = DOMAIN counts \cup {r.chosen}
           /\ after[key][r.chosen] = CountOf(counts, r.chosen) + 1
           /\ \A v \in DOMAIN counts \ {r.chosen} : after[key][v] = counts[v]
           /\ \A k \in DOMAIN counter \ {key} : after[k] = counter[k]

----------------------------------------------------------------------------
(* Properties of two concurrent calls, checked under SpecConcurrent        *)

\* caller p's call has returned the introduction
ReturnedIntro(p) ==
    /\ requests[p].pc = "returned"
    /\ requests[p].handler = "generate_intro_message"

\* a call made after the other call returned does not return the introduction,
\* and the other call did
SerializedIntroOnce ==
    \A p \in Callers :
        (requests[p].pc = "returned" /\ requests[p].after) =>
            (~ReturnedIntro(p) /\ ReturnedIntro(Other(p)))

\* C40 (as stated): in every interleaving of the two calls at most one of them
\* returns the introduction, and when one call is made after the other has
\* returned, exactly the first returns it.
C40_IntroAtMostOnce ==
    /\ ~(ReturnedIntro(1) /\ ReturnedIntro(2))
    /\ SerializedIntroOnce

\* C40 (amended): when one call is made after the other has returned, exactly
\* the first returns the introduction; of two calls that overlap at least one
\* returns it, and both do when the second reads is_first_message before the
\* first has reset it.
C40_IntroOnceWhenSerialized ==
    /\ SerializedIntroOnce
    /\ (requests[1].pc = "returned" /\ requests[2].pc = "returned") =>
          (ReturnedIntro(1) \/ ReturnedIntro(2))
    /\ (ReturnedIntro(1) /\ ReturnedIntro(2)) =>
          /\ ~requests[1].after /\ ~requests[2].after
          /\ requests[1].response = requests[2].response
          /\ ~session_state.is_first_message

\* C40 witness: both calls have returned the introduction.
C40_Witness == ReturnedIntro(1) /\ ReturnedIntro(2)

====
